---- MODULE Spec2Model ----
(***************************************************************************)
(* TXMBase (src/gulpfile.js, lines 112-1121): the reactive component base  *)
(* class.  The state is the fields of every component instance, the        *)
(* closure state of the TXMBase factory (baseClassInstance, refreshQueue,  *)
(* uniqueIndex), the pending setTimeout callbacks and the promise groups   *)
(* in flight.  One action per public call, timer callback or promise       *)
(* settlement; each runs the whole handler to completion (JavaScript is    *)
(* single threaded).                                                       *)
(*                                                                         *)
(* The DOM is abstracted to what the code reads of it: element identity    *)
(* (a fresh id per template evaluation), the elements the refresh          *)
(* selectors match (Slots, with their nesting) and where a child           *)
(* component's element sits in its parent's tree.                          *)
(***************************************************************************)
EXTENDS Integers, Sequences, FiniteSets, TLC

VARIABLES
    comp,               \* instance id -> the fields of that component object
    baseClassInstance,  \* line 118: the number of instances constructed so far
    refreshQueue,       \* line 123: the queued refresh closures
    uniqueIndex,        \* line 124: the instance ids pushed with them
    checks,             \* pending 10 ms timers of queueRefresh (FIFO): their refreshCount
    sweeps,             \* pending 500 ms timers of _refresh (FIFO): instance and token
    groups,             \* Promise.all groups that have not settled
    nextElmt,           \* the next fresh DOM element id
    nextArr,            \* the next fresh id of an array handed to registerChild
    last,               \* what the last step did: call, result, events, error
    ops                 \* external calls the environment may still make

vars == <<comp, baseClassInstance, refreshQueue, uniqueIndex, checks, sweeps,
          groups, nextElmt, nextArr, last, ops>>

-----------------------------------------------------------------------------
(* Bounds of the model *)

NInst == 6
MaxOps == 3
MaxElmt == 6
NTokens == 2
MaxRegs == 4

Inst == 1..NInst
Tokens == 1..NTokens

-----------------------------------------------------------------------------
(* Sequence helpers *)

RemoveAt(s, k) == [j \in 1..(Len(s) - 1) |-> IF j < k THEN s[j] ELSE s[j + 1]]

\* Array.prototype.indexOf, 1-based; 0 when absent
IndexOf(s, x) ==
    IF \E k \in DOMAIN s : s[k] = x
    THEN CHOOSE k \in DOMAIN s : s[k] = x /\ \A j \in 1..(k - 1) : s[j] # x
    ELSE 0

Range(s) == {s[k] : k \in DOMAIN s}

Reverse(s) == [k \in 1..Len(s) |-> s[Len(s) + 1 - k]]

RECURSIVE Flatten(_)
Flatten(ss) == IF ss = <<>> THEN <<>> ELSE Head(ss) \o Flatten(Tail(ss))

-----------------------------------------------------------------------------
(* DOM abstraction *)

\* a jQuery-wrapped element: id 0 is null; loading marks a loading view
NullElmt == [id |-> 0, loading |-> FALSE]
Content(n) == [id |-> n, loading |-> FALSE]
Loading(n) == [id |-> n, loading |-> TRUE]

\* The elements of a rendered component that refresh selectors can match:
\* B lies inside A, C is a sibling of A.
Slots == {"A", "B", "C"}
SlotParent(s) == IF s = "B" THEN "A" ELSE "none"

\* Node.contains on slots of one tree: x contains y (a node contains itself)
SlotContains(x, y) == x = y \/ SlotParent(y) = x

\* jqDom.find(selector): the matched elements in document order
Selectors == {".a", ".b", ".c", ".d", ".z"}
SelSlots(sel) ==
    CASE sel = ".a" -> <<"A">>
      [] sel = ".b" -> <<"B">>
      [] sel = ".c" -> <<"C">>
      [] sel = ".d" -> <<"A", "C">>
      [] OTHER -> <<>>

\* where an element sits: in the tree rooted at element `root`, inside slot
\* `slot` ("top": outside every slot), put there by render `gen`
NoPlace == [root |-> 0, slot |-> "none", gen |-> 0]

-----------------------------------------------------------------------------
(* Configuration (the defaults/options a component is constructed with) *)

Paths == {"p", "q", "r", "x", "y", "u"}

Lit(path) == [re |-> FALSE, lit |-> path, matches |-> {}]
Re(src, paths) == [re |-> TRUE, lit |-> src, matches |-> paths]

\* lines 72-78: uiBindings, in property order
UiBindings ==
    << [key |-> Lit("p"), full |-> TRUE, sels |-> <<>>],
       [key |-> Lit("q"), full |-> FALSE, sels |-> <<".a", ".b">>],
       [key |-> Re("/^[qr]$/", {"q", "r"}), full |-> FALSE, sels |-> <<".b", ".c">>],
       [key |-> Lit("x"), full |-> FALSE, sels |-> <<".d">>],
       [key |-> Lit("y"), full |-> FALSE, sels |-> <<".c", ".z">>] >>

\* lines 84-91: dataBindings, in property order
DataBindings ==
    << [key |-> Lit("p"), methods |-> <<"m1">>, delayRefresh |-> TRUE],
       [key |-> Re("/^[pq]$/", {"p", "q"}), methods |-> <<"m1">>,
        delayRefresh |-> FALSE] >>

\* the names that are functions on an instance of the class
Methods == {"m1", "i1", "i2"}

\* lines 53-66: initList entries; condition is "none" (not a function) or the
\* value the predicate returns
InitEntry(m, pr, cond) == [method |-> m, preventRender |-> pr, condition |-> cond]
InitLists ==
    { <<>>,
      <<InitEntry("i1", TRUE, "none")>>,
      <<InitEntry("i1", FALSE, "none")>>,
      <<InitEntry("i1", TRUE, "true"), InitEntry("i2", FALSE, "none")>>,
      <<InitEntry("i1", TRUE, "false")>>,
      <<InitEntry("i1", TRUE, "false"), InitEntry("i2", FALSE, "none")>> }

TagNames == {"t1", "t2"}
SectionNames == {"rows"}

\* where the placeholder of a tag or section sits in the parent's template
TagSlot(tag) == IF tag = "t1" THEN "A" ELSE "top"
SectionSlot(name) == "C"

\* What the component's template emits for the current data: how many
\* placeholders of each child tag outside the section placeholders (top), how
\* many placeholders of each section (sec), and how many placeholders of each
\* child tag inside one section placeholder (inner).
View(top, sec, inner) ==
    [top |-> [t \in TagNames |-> IF t \in top THEN 1 ELSE 0],
     sec |-> [n \in SectionNames |-> IF n \in sec THEN 1 ELSE 0],
     inner |-> [t \in TagNames |-> IF t \in inner THEN 1 ELSE 0]]
FullView == View(TagNames, SectionNames, TagNames)
Views == {FullView, View({}, {}, {}), View({"t2"}, SectionNames, {"t1"})}

\* lines 195-253: the fields the constructor sets before init()
NewComp(cfg) ==
    [ exists |-> TRUE,
      delayInit |-> cfg.delayInit,
      initList |-> cfg.initList,
      tagName |-> cfg.tagName,
      callable |-> cfg.callable,
      jqDom |-> NullElmt,
      initialized |-> FALSE,
      pendingInit |-> FALSE,
      pendingFetchCount |-> 0,
      initRendered |-> FALSE,
      delayRefresh |-> FALSE,
      cleanUpChildren |-> 0,
      childDefault |-> <<>>,
      childSections |-> <<>>,
      refreshList |-> [full |-> FALSE, sels |-> <<>>],
      observed |-> TRUE,
      view |-> FullView,
      slots |-> [s \in Slots |-> 0],
      place |-> NoPlace ]

NoComp == [NewComp([delayInit |-> FALSE, initList |-> <<>>, tagName |-> "t1",
                    callable |-> Methods])
             EXCEPT !.exists = FALSE, !.observed = FALSE]

-----------------------------------------------------------------------------
(* The world: the program state plus what the running handler has produced *)

World ==
    [ comp |-> comp, baseClassInstance |-> baseClassInstance,
      refreshQueue |-> refreshQueue, uniqueIndex |-> uniqueIndex,
      checks |-> checks, sweeps |-> sweeps, groups |-> groups,
      nextElmt |-> nextElmt, nextArr |-> nextArr,
      log |-> <<>>, err |-> "none", ret |-> NullElmt, recs |-> <<>>,
      cnt |-> [t \in TagNames |-> 0], cl |-> [t \in TagNames |-> 0],
      secOn |-> FALSE, rnd |-> <<>> ]

Ev(e, i, a) == [ev |-> e, inst |-> i, arg |-> a]
Emit(w, e, i, a) == [w EXCEPT !.log = Append(@, Ev(e, i, a))]
Throw(w, e) == [w EXCEPT !.err = e]

\* _refreshList: true (full) or an array of selectors
RefreshTrue == [full |-> TRUE, sels |-> <<>>]
RefreshNone == [full |-> FALSE, sels |-> <<>>]
\* lines 418, 615: _refreshList === true || _refreshList.length > 0
RefreshPending(rl) == rl.full \/ Len(rl.sels) > 0

-----------------------------------------------------------------------------
(* Refresh scheduler, lines 123-139 *)

\* line 126: refreshQueue holds the refresh closures, and a closure is never
\* strictly equal to the instance id that indexOf is asked for
ClosureIsId(fn, instanceId) == FALSE

QueueIndexOf(w, instanceId) ==
    IF \E k \in DOMAIN w.refreshQueue : ClosureIsId(w.refreshQueue[k], instanceId)
    THEN 1 ELSE -1

\* a queueRefresh that looks the instance id up in uniqueIndex
queueRefreshById(w, instanceId, site) ==
    LET Schedule(w1) ==
            Emit([w1 EXCEPT !.checks = Append(@, Len(w1.refreshQueue))],
                 "queueRefresh", instanceId, site)
    IN Schedule(IF IndexOf(w.uniqueIndex, instanceId) = 0
                THEN [w EXCEPT !.uniqueIndex = Append(@, instanceId),
                               !.refreshQueue = Append(@, [self |-> instanceId,
                                                           site |-> site])]
                ELSE w)

\* refreshData is {instanceId, refresh: function() { self._refresh(); }}; the
\* closure is recorded by the instance it refreshes and the site that made it
queueRefresh(w, instanceId, site) ==
    LET Schedule(w1) ==
            Emit([w1 EXCEPT !.checks = Append(@, Len(w1.refreshQueue))],
                 "queueRefresh", instanceId, site)
    IN Schedule(IF QueueIndexOf(w, instanceId) = -1
                THEN [w EXCEPT !.uniqueIndex = Append(@, instanceId),
                               !.refreshQueue = Append(@, [self |-> instanceId,
                                                           site |-> site])]
                ELSE w)

-----------------------------------------------------------------------------
(* Fetch orchestrator: init (lines 456-546) and _fetch (lines 560-624) *)

NewGroup(i, kind, n, mask) == [inst |-> i, kind |-> kind, left |-> n, loadMask |-> mask]

\* an init that schedules and counts every entry, whatever its condition returns
initAll(w, i) ==
    LET c == w.comp[i]
        run == c.initList
        nActive == Len(SelectSeq(run, LAMBDA e : e.preventRender))
        nPassive == Len(run) - nActive
        w1 == [w EXCEPT !.log = @ \o [k \in 1..Len(run) |-> Ev("invoke", i, run[k].method)]]
        w2 == IF nActive > 0
              THEN [w1 EXCEPT !.comp[i].pendingFetchCount = @ + 1,
                              !.comp[i].pendingInit = TRUE,
                              !.groups = Append(@, NewGroup(i, "active", nActive, FALSE))]
              ELSE Emit([w1 EXCEPT !.comp[i].initialized = TRUE], "_init", i, "")
    IN IF nPassive > 0
       THEN [w2 EXCEPT !.comp[i].pendingFetchCount = @ + 1,
                       !.groups = Append(@, NewGroup(i, "passive", nPassive, FALSE))]
       ELSE w2

\* lines 462-468: every method of every data binding is a function
BindingsCallable(c) ==
    \A k \in DOMAIN DataBindings :
        \A m \in DOMAIN DataBindings[k].methods : DataBindings[k].methods[m] \in c.callable

\* lines 477-505: the condition of an entry is called, then its method unless
\* the entry is skipped
InitCalls(i, il) ==
    Flatten([k \in DOMAIN il |->
        (IF il[k].condition # "none" THEN <<Ev("condition", i, il[k].method)>> ELSE <<>>)
        \o (IF il[k].condition # "false" THEN <<Ev("invoke", i, il[k].method)>> ELSE <<>>)])

\* lines 470-545: init once the data bindings are found sound
initTasks(w, i) ==
    LET c == w.comp[i]
        \* lines 481-483: entries whose condition returns false are skipped
        run == SelectSeq(c.initList, LAMBDA e : e.condition # "false")
        nActive == Len(SelectSeq(run, LAMBDA e : e.preventRender))
        nPassive == Len(run) - nActive
        \* lines 486-489: the promise executor invokes the method at once
        w1 == [w EXCEPT !.log = @ \o InitCalls(i, c.initList)]
        w2 == IF nActive > 0
              THEN [w1 EXCEPT !.comp[i].pendingFetchCount = @ + 1,
                              !.comp[i].pendingInit = TRUE,
                              !.groups = Append(@, NewGroup(i, "active", nActive, FALSE))]
              ELSE Emit([w1 EXCEPT !.comp[i].initialized = TRUE], "_init", i, "")
    IN IF nPassive > 0
       THEN [w2 EXCEPT !.comp[i].pendingFetchCount = @ + 1,
                       !.groups = Append(@, NewGroup(i, "passive", nPassive, FALSE))]
       ELSE w2

\* an init that looks at the data bindings after it has started the tasks
initLate(w, i) ==
    IF BindingsCallable(w.comp[i]) THEN initTasks(w, i)
    ELSE Throw(initTasks(w, i), "ConfigurationError")

\* lines 456-546
init(w, i) ==
    IF BindingsCallable(w.comp[i]) THEN initTasks(w, i)
    ELSE Throw(w, "ConfigurationError")

_fetch(w, i, delayRefresh, fetchList) ==
    LET loadMask == delayRefresh /\ Len(fetchList) > 0
        w1 == IF loadMask
              THEN Emit([w EXCEPT !.comp[i].delayRefresh = delayRefresh],
                        "showLoadMask", i, "")
              ELSE w
        n == Len(fetchList)
    IN IF n > 0
       THEN [w1 EXCEPT !.comp[i].pendingFetchCount = @ + 1,
                       \* lines 583-603: one promise per entry, last entry first
                       !.log = @ \o [k \in 1..n |-> Ev("invoke", i, fetchList[n + 1 - k])],
                       !.groups = Append(@, NewGroup(i, "fetch", n, loadMask))]
       ELSE w1

\* GroupThen whose active branch forgets lines 517-522 (no refresh requested)
GroupThenNoRefresh(w, g) ==
    LET i == g.inst
    IN CASE g.kind = "active" ->
              [Emit([w EXCEPT !.comp[i].initialized = TRUE,
                              !.comp[i].pendingInit = FALSE], "_init", i, "")
                  EXCEPT !.comp[i].pendingFetchCount = @ - 1]
         [] g.kind = "passive" ->
              [w EXCEPT !.comp[i].pendingFetchCount = @ - 1]
         [] OTHER ->
              [w EXCEPT !.comp[i].delayRefresh = FALSE,
                        !.comp[i].pendingFetchCount = @ - 1]

\* lines 513-530, 542-544, 606-621: the .then continuation of a group
GroupThen(w, g) ==
    LET i == g.inst
    IN CASE g.kind = "active" ->
              LET w1 == [w EXCEPT !.comp[i].initialized = TRUE,
                                  !.comp[i].pendingInit = FALSE,
                                  !.comp[i].refreshList = RefreshTrue]
                  w2 == Emit(queueRefresh(w1, i, "init"), "_init", i, "")
              IN [w2 EXCEPT !.comp[i].pendingFetchCount = @ - 1]
         [] g.kind = "passive" ->
              [w EXCEPT !.comp[i].pendingFetchCount = @ - 1]
         [] OTHER ->
              LET w1 == [w EXCEPT !.comp[i].delayRefresh = FALSE]
                  w2 == IF g.loadMask THEN Emit(w1, "hideLoadMask", i, "") ELSE w1
                  w3 == IF RefreshPending(w2.comp[i].refreshList)
                        THEN queueRefresh(w2, i, "_fetch") ELSE w2
              IN [w3 EXCEPT !.comp[i].pendingFetchCount = @ - 1]

-----------------------------------------------------------------------------
(* Binding resolver: the ObservableSlim change handler, lines 348-426 *)

\* lines 372-379, 396-402: literal comparison, or the regular expression
KeyMatches(key, path) == key.lit = path \/ (key.re /\ path \in key.matches)

\* UiStep without the guard of line 379 on a refresh state that is already true
UiStepOverwrite(rl, b, path) ==
    IF KeyMatches(b.key, path)
    THEN IF b.full THEN RefreshTrue
         ELSE [full |-> FALSE, sels |-> rl.sels \o b.sels]
    ELSE rl

\* lines 379-388: one ui binding against one change record
UiStep(rl, b, path) ==
    IF ~rl.full /\ KeyMatches(b.key, path)
    THEN IF b.full THEN RefreshTrue
         ELSE [rl EXCEPT !.sels = @ \o b.sels]
    ELSE rl

\* lines 368-389 for one change record: every ui binding in property order
RECURSIVE UiLoop(_, _, _)
UiLoop(rl, path, k) ==
    IF k > Len(UiBindings) THEN rl
    ELSE UiLoop(UiStep(rl, UiBindings[k], path), path, k + 1)

\* lines 392-410 for one change record
RECURSIVE DataLoop(_, _, _)
DataLoop(acc, path, k) ==
    IF k > Len(DataBindings) THEN acc
    ELSE LET b == DataBindings[k]
             acc1 == IF KeyMatches(b.key, path)
                     THEN [delayRefresh |-> acc.delayRefresh \/ b.delayRefresh,
                           fetchList |-> acc.fetchList \o b.methods]
                     ELSE acc
         IN DataLoop(acc1, path, k + 1)

\* a loop over the change records that stops at the first record that asks for
\* a refresh
RECURSIVE ChangeLoopStop(_, _, _)
ChangeLoopStop(acc, changes, n) ==
    IF n = 0 \/ RefreshPending(acc.refreshList) THEN acc
    ELSE LET d == DataLoop([delayRefresh |-> acc.delayRefresh, fetchList |-> acc.fetchList],
                           changes[n], 1)
         IN ChangeLoopStop([refreshList |-> UiLoop(acc.refreshList, changes[n], 1),
                            delayRefresh |-> d.delayRefresh,
                            fetchList |-> d.fetchList],
                           changes, n - 1)

\* lines 364-412: var i = changes.length; while (i--) ...
RECURSIVE ChangeLoop(_, _, _)
ChangeLoop(acc, changes, n) ==
    IF n = 0 THEN acc
    ELSE LET d == DataLoop([delayRefresh |-> acc.delayRefresh, fetchList |-> acc.fetchList],
                           changes[n], 1)
         IN ChangeLoop([refreshList |-> UiLoop(acc.refreshList, changes[n], 1),
                        delayRefresh |-> d.delayRefresh,
                        fetchList |-> d.fetchList],
                       changes, n - 1)

Resolve(rl, changes) ==
    ChangeLoop([refreshList |-> rl, delayRefresh |-> FALSE, fetchList |-> <<>>],
               changes, Len(changes))

\* a handler without the guard of line 353
onChangeAlways(w, i, changes) ==
    LET Queue(w2) == IF RefreshPending(w2.comp[i].refreshList)
                     THEN queueRefresh(w2, i, "handler")
                     ELSE w2
        Fetch(r) == Queue(_fetch([w EXCEPT !.comp[i].refreshList = r.refreshList],
                                 i, r.delayRefresh, r.fetchList))
    IN Fetch(Resolve(w.comp[i].refreshList, changes))

\* lines 348-426: the handler ObservableSlim calls with the change records
onChange(w, i, changes) ==
    LET \* lines 418-424
        Queue(w2) == IF RefreshPending(w2.comp[i].refreshList)
                     THEN queueRefresh(w2, i, "handler")
                     ELSE w2
        \* line 415
        Fetch(r) == Queue(_fetch([w EXCEPT !.comp[i].refreshList = r.refreshList],
                                 i, r.delayRefresh, r.fetchList))
    IN IF w.comp[i].initialized
       THEN Fetch(Resolve(w.comp[i].refreshList, changes))
       ELSE w

-----------------------------------------------------------------------------
(* Render engine: render, _renderWithChildren, _render, _insertChildren   *)
(* (lines 634-889).  A handler that throws leaves err set; every caller   *)
(* stops at the first error, as the exception unwinds the JavaScript.     *)

Failed(w) == w.err # "none"

\* line 748 / lines 644-648: one template evaluation, a fresh element
_render(w, i) ==
    [Emit(w, "_render", i, "") EXCEPT !.ret = Content(w.nextElmt), !.nextElmt = @ + 1]
renderLoading(w, i) ==
    [Emit(w, "renderLoading", i, "") EXCEPT !.ret = Loading(w.nextElmt), !.nextElmt = @ + 1]

\* jqDom.find(tag).length in a freshly rendered root with view v: the tags
\* outside the section placeholders and those inside them
InitialCount(v) ==
    [t \in TagNames |->
        v.top[t] + (IF \E n \in SectionNames : v.sec[n] > 0 THEN v.inner[t] ELSE 0)]

\* The iterations of _insertChildren in the order the loops of lines 765-886
\* make them: per named section its header, per repetition the clone, its
\* children in order and the end of the clone; then the default section, last
\* registered first.
Step(kind, name, c) == [kind |-> kind, name |-> name, c |-> c]
InsertSteps(comp1) ==
    Flatten([k \in 1..Len(comp1.childSections) |->
        LET sec == comp1.childSections[k]
        IN <<Step("section", sec.name, 0)>>
           \o Flatten([a \in 1..Len(sec.reps) |->
                 <<Step("clone", sec.name, 0)>>
                 \o [b \in 1..Len(sec.reps[a].items) |->
                       Step("child", sec.name, sec.reps[a].items[b])]
                 \o <<Step("append", sec.name, 0)>>])])
    \o [k \in 1..Len(comp1.childDefault) |->
          Step("default", "default", Reverse(comp1.childDefault)[k])]

RECURSIVE renderWithChildren(_, _)

\* an insertion that records the child alone, without what the child inserted
insertChildOwn(w, root, c, slot) ==
    LET Insert(r) ==
            LET own == [comp |-> c, elmt |-> r.ret, top |-> slot,
                        place |-> [root |-> root.id, slot |-> slot, gen |-> root.id]]
            IN IF Failed(r) THEN r
               ELSE [r EXCEPT !.recs = w.recs \o <<own>>, !.cnt = w.cnt,
                              !.cl = w.cl, !.secOn = w.secOn, !.ret = root]
    IN Insert(renderWithChildren(w, c))

\* lines 825-834, 873-882: render child c and splice it in at `slot` of `root`.
\* The placeholders a child leaves unfilled in its own element are tags its
\* parent does not look for: they add nothing to cnt and cl.
insertChild(w, root, c, slot) ==
    LET Insert(r) ==
            LET own == [comp |-> c, elmt |-> r.ret, top |-> slot,
                        place |-> [root |-> root.id, slot |-> slot, gen |-> root.id]]
                nested == [k \in 1..Len(r.recs) |-> [r.recs[k] EXCEPT !.top = slot]]
            IN IF Failed(r) THEN r
               ELSE [r EXCEPT !.recs = w.recs \o <<own>> \o nested, !.cnt = w.cnt,
                              !.cl = w.cl, !.secOn = w.secOn, !.ret = root]
    IN Insert(renderWithChildren(w, c))

\* one iteration of lines 765-886 for the component with view v.  cnt counts
\* the placeholders of each tag in the root, cl those left in the current
\* clone; secOn holds while the current section has exactly one placeholder.
InsertStep(w, v, root, st) ==
    LET tag == IF st.c = 0 THEN "none" ELSE w.comp[st.c].tagName
        n == IF st.kind \in {"child", "default"}
             THEN (IF st.kind = "child" THEN w.cl[tag] ELSE w.cnt[tag])
             ELSE (IF st.kind = "section" THEN v.sec[st.name] ELSE 0)
        slot == IF st.kind = "child" THEN SectionSlot(st.name) ELSE TagSlot(tag)
        marked == IF st.kind = "child" THEN [w EXCEPT !.cl[tag] = 0]
                  ELSE [w EXCEPT !.cnt[tag] = 0]
    IN CASE st.kind = "section" ->
              \* lines 774-781, 862-864; the single placeholder leaves the root
              IF n > 1 THEN Throw(w, "AmbiguousSection")
              ELSE [w EXCEPT !.secOn = (n = 1),
                             !.cnt = IF n = 1 THEN [t \in TagNames |-> @[t] - v.inner[t]]
                                     ELSE @]
         [] st.kind = "clone" -> [w EXCEPT !.cl = v.inner]
         [] st.kind = "append" ->
              \* lines 846-858: the clone's contents join the root
              IF w.secOn THEN [w EXCEPT !.cnt = [t \in TagNames |-> @[t] + w.cl[t]]] ELSE w
         [] OTHER ->
              \* lines 798-841 and 870-885
              IF st.kind = "child" /\ ~w.secOn THEN w
              ELSE IF n = 1 THEN insertChild(marked, root, st.c, slot)
              ELSE IF n > 1
              THEN Throw(w, IF st.kind = "child" THEN "DuplicateChildTag"
                            ELSE "AmbiguousChildTag")
              ELSE w

RECURSIVE InsertLoop(_, _, _, _, _)
InsertLoop(w, v, root, steps, k) ==
    IF Failed(w) \/ k > Len(steps) THEN w
    ELSE InsertLoop(InsertStep(w, v, root, steps[k]), v, root, steps, k + 1)

\* lines 760-889: returns the insertion records in recs
_insertChildren(w, p, root) ==
    LET v == w.comp[p].view
        r == InsertLoop([w EXCEPT !.recs = <<>>, !.cnt = InitialCount(v),
                                  !.cl = v.inner, !.secOn = FALSE],
                        v, root, InsertSteps(w.comp[p]), 1)
    IN [r EXCEPT !.ret = root]

\* lines 684-726
renderWithChildren(w, i) ==
    LET c == w.comp[i]
        \* lines 705-712
        Insert(w2) == _insertChildren(w2, i, w2.ret)
        \* lines 695-712
        Render(w1) == IF Failed(w1) THEN w1
                      ELSE IF ~w1.comp[i].initialized /\ w1.comp[i].pendingInit
                      THEN [renderLoading(w1, i) EXCEPT !.recs = <<>>]
                      ELSE Insert(_render(w1, i))
    IN Render(IF ~c.initialized /\ ~c.pendingInit THEN init(w, i) ELSE w)

\* comp.jqDom = elmt for one insertion record
AnchorOne(w, r) ==
    [w EXCEPT !.comp[r.comp].jqDom = r.elmt,
              !.comp[r.comp].place = r.place,
              !.comp[r.comp].slots = [s \in Slots |-> r.elmt.id]]

\* lines 669-672: every record, last first
RECURSIVE AnchorAll(_, _, _)
AnchorAll(w, recs, n) ==
    IF n = 0 THEN w ELSE AnchorAll(AnchorOne(w, recs[n]), recs, n - 1)

\* render without the cached branch of lines 654-655
renderUncached(w, i) ==
    LET c == w.comp[i]
        Keep(w2) == [w2 EXCEPT !.comp[i].jqDom = w2.ret, !.comp[i].place = NoPlace]
        Anchor(w3) ==
            IF Failed(w3) THEN w3
            ELSE [AnchorAll(w3, w3.recs, Len(w3.recs))
                     EXCEPT !.comp[i].initRendered = TRUE,
                            !.comp[i].jqDom = w3.ret,
                            !.comp[i].slots = [s \in Slots |-> w3.ret.id],
                            !.comp[i].place = NoPlace]
        Insert(w2) == Anchor(_insertChildren(w2, i, w2.ret))
        Render(w1) ==
            IF Failed(w1) THEN w1
            ELSE IF ~w1.comp[i].initialized /\ w1.comp[i].pendingInit
            THEN Keep(renderLoading(w1, i))
            ELSE Insert(_render(w1, i))
    IN Render(IF ~c.initialized /\ ~c.pendingInit THEN init(w, i) ELSE w)

\* lines 634-682
render(w, i) ==
    LET c == w.comp[i]
        \* lines 647-648: the loading view becomes this.jqDom
        Keep(w2) == [w2 EXCEPT !.comp[i].jqDom = w2.ret, !.comp[i].place = NoPlace]
        \* lines 667-675: anchor the inserted children, then this.jqDom
        Anchor(w3) ==
            IF Failed(w3) THEN w3
            ELSE [AnchorAll(w3, w3.recs, Len(w3.recs))
                     EXCEPT !.comp[i].initRendered = TRUE,
                            !.comp[i].jqDom = w3.ret,
                            !.comp[i].slots = [s \in Slots |-> w3.ret.id],
                            !.comp[i].place = NoPlace]
        \* lines 661-664
        Insert(w2) == Anchor(_insertChildren(w2, i, w2.ret))
        \* lines 644-679
        Render(w1) ==
            IF Failed(w1) THEN w1
            ELSE IF ~w1.comp[i].initialized /\ w1.comp[i].pendingInit
            THEN Keep(renderLoading(w1, i))
            ELSE IF ~w1.comp[i].refreshList.full /\ Len(w1.comp[i].refreshList.sels) = 0
                    /\ w1.comp[i].initRendered
            THEN [w1 EXCEPT !.ret = w1.comp[i].jqDom]
            ELSE Insert(_render(w1, i))
    IN Render(IF ~c.initialized /\ ~c.pendingInit THEN init(w, i) ELSE w)

-----------------------------------------------------------------------------
(* Child component registry: eachChildComponent, registerChild, destroy,   *)
(* isReady (lines 1024-1117)                                               *)

\* a visit that stops after the "default" section
ChildOrderDefault(c) == Reverse(c.childDefault)

\* lines 1026-1046 with a visitor that removes nothing: the children in the
\* order they are visited ("default" first, every list from its last index)
ChildOrder(c) ==
    Reverse(c.childDefault)
    \o Flatten([k \in 1..Len(c.childSections) |->
                  Flatten([a \in 1..Len(c.childSections[k].reps) |->
                             Reverse(Reverse(c.childSections[k].reps)[a].items)])])

\* lines 1058-1078, sectionName undefined
registerDefault(w, p, child) ==
    IF IndexOf(w.comp[p].childDefault, child) = 0
    THEN [w EXCEPT !.comp[p].childDefault = Append(@, child)]
    ELSE w

\* a registerChild that creates the section before it looks at the argument
registerSectionLate(w, p, arr, sectionName) ==
    LET secs == w.comp[p].childSections
        known == \E k \in DOMAIN secs : secs[k].name = sectionName
        secs1 == IF known THEN secs ELSE Append(secs, [name |-> sectionName, reps |-> <<>>])
        k == CHOOSE j \in DOMAIN secs1 : secs1[j].name = sectionName
        found == \E a \in DOMAIN secs1[k].reps : secs1[k].reps[a].aid = arr.aid
    IN IF ~arr.isArray
       THEN Throw([w EXCEPT !.comp[p].childSections = secs1], "ConfigurationError")
       ELSE IF found THEN [w EXCEPT !.comp[p].childSections = secs1]
       ELSE [w EXCEPT !.comp[p].childSections =
                         [secs1 EXCEPT ![k].reps = Append(@, [aid |-> arr.aid, items |-> arr.items])]]

\* lines 1058-1078, sectionName given; arr is the array object (aid its identity)
\* or not an array
registerSection(w, p, arr, sectionName) ==
    LET secs == w.comp[p].childSections
        known == \E k \in DOMAIN secs : secs[k].name = sectionName
        secs1 == IF known THEN secs ELSE Append(secs, [name |-> sectionName, reps |-> <<>>])
        k == CHOOSE j \in DOMAIN secs1 : secs1[j].name = sectionName
        \* line 1075: indexOf compares the array objects
        found == \E a \in DOMAIN secs1[k].reps : secs1[k].reps[a].aid = arr.aid
    IN IF ~arr.isArray THEN Throw(w, "ConfigurationError")
       ELSE IF found THEN [w EXCEPT !.comp[p].childSections = secs1]
       ELSE [w EXCEPT !.comp[p].childSections =
                         [secs1 EXCEPT ![k].reps = Append(@, [aid |-> arr.aid, items |-> arr.items])]]

RECURSIVE destroy(_, _), DestroyEach(_, _, _)

\* lines 1091-1093: childComponent.destroy() for every visited child
DestroyEach(w, kids, n) ==
    IF n > Len(kids) THEN w ELSE DestroyEach(destroy(w, kids[n]), kids, n + 1)

\* a destroy that leaves the registered children alone
destroyShallow(w, i) ==
    LET w1 == Emit([Emit(w, "destroy", i, "")
                      EXCEPT !.comp[i].childDefault = <<>>,
                             !.comp[i].childSections = <<>>,
                             !.comp[i].observed = FALSE],
                   "ObservableSlim.remove", i, "")
    IN IF w.comp[i].jqDom.id # 0
       THEN Emit([w1 EXCEPT !.comp[i].place = NoPlace], "jqDom.remove", i, "")
       ELSE w1

\* lines 1088-1102
destroy(w, i) ==
    LET \* lines 1099-1101
        Remove(w2) == IF w2.comp[i].jqDom.id # 0
                      THEN Emit([w2 EXCEPT !.comp[i].place = NoPlace], "jqDom.remove", i, "")
                      ELSE w2
        \* lines 1095-1097
        Detach(w1) == Remove(Emit([w1 EXCEPT !.comp[i].childDefault = <<>>,
                                             !.comp[i].childSections = <<>>,
                                             !.comp[i].observed = FALSE],
                                  "ObservableSlim.remove", i, ""))
    IN Detach(DestroyEach(Emit(w, "destroy", i, ""), ChildOrder(w.comp[i]), 1))

\* line 1116: _refreshList.length === 0 (true has no length)
RefreshLengthIsZero(rl) == ~rl.full /\ Len(rl.sels) = 0

\* lines 1111-1117
RECURSIVE isReady(_, _)
isReady(w, i) ==
    LET c == w.comp[i]
        kids == ChildOrder(c)
        allChildrenReady == \A k \in DOMAIN kids : isReady(w, kids[k])
    IN allChildrenReady /\ RefreshLengthIsZero(c.refreshList)
       /\ c.pendingFetchCount = 0 /\ c.pendingInit = FALSE

\* line 1009: self.jqDom[0].contains(childComponent.jqDom[0])
Contains(w, p, c) ==
    LET pc == w.comp[p]
        cc == w.comp[c]
    IN /\ cc.place.root = pc.jqDom.id
       /\ pc.jqDom.id # 0
       /\ IF cc.place.slot \in Slots
          THEN ~pc.jqDom.loading /\ pc.slots[cc.place.slot] = cc.place.gen
          ELSE cc.place.slot = "top"

\* lines 1006-1012: the visitor of the orphan sweep
Orphan(w, p, c) == w.comp[c].jqDom.id = 0 \/ ~Contains(w, p, c)

\* The cursor of the loops of eachChildComponent (lines 1026-1046): property
\* k of childComponents (0 is "default", k >= 1 the k-th named section, whose
\* name is kept to see whether the loop's own section was deleted), index a
\* into its list and, in a named section, index b into repetition a.
\* Indices are 1-based: 0 means the while loop has run out.
Cursor(k, name, a, b) == [k |-> k, name |-> name, a |-> a, b |-> b]

\* the cursor at the start of named section k (done when there is none)
SectionStart(secs, k) ==
    IF k > Len(secs) THEN Cursor(-1, "done", 0, 0)
    ELSE Cursor(k, secs[k].name, Len(secs[k].reps),
                IF secs[k].reps = <<>> THEN 0
                ELSE Len(secs[k].reps[Len(secs[k].reps)].items))

\* the cursor after the iteration at cur, read from the registry as it is then
CursorNext(c, cur) ==
    LET secs == c.childSections
        alive == cur.k >= 1 /\ cur.k <= Len(secs) /\ secs[cur.k].name = cur.name
    IN IF cur.k = 0
       THEN IF cur.a > 1 THEN Cursor(0, "default", cur.a - 1, 0)
            ELSE SectionStart(secs, 1)
       ELSE IF cur.b > 1 THEN Cursor(cur.k, cur.name, cur.a, cur.b - 1)
       ELSE IF cur.a > 1 /\ alive
       THEN Cursor(cur.k, cur.name, cur.a - 1, Len(secs[cur.k].reps[cur.a - 1].items))
       ELSE SectionStart(secs, IF alive THEN cur.k + 1 ELSE cur.k)

\* the child the cursor is at (0: none, an empty list)
CursorChild(c, cur) ==
    IF cur.k = 0
    THEN (IF cur.a >= 1 THEN c.childDefault[cur.a] ELSE 0)
    ELSE (IF cur.a >= 1 /\ cur.b >= 1 THEN c.childSections[cur.k].reps[cur.a].items[cur.b]
          ELSE 0)

\* a removal callback that destroys the child and keeps it in its list
removeChildKeep(w, p, cur) ==
    destroy(Emit(w, "removeChild", CursorChild(w.comp[p], cur), ""),
            CursorChild(w.comp[p], cur))

\* lines 1031-1032 and 1038-1041: the removal callback at the cursor
removeChild(w, p, cur) ==
    LET c == w.comp[p]
        child == CursorChild(c, cur)
        secs == c.childSections
        items1 == RemoveAt(secs[cur.k].reps[cur.a].items, cur.b)
        reps1 == IF items1 = <<>> THEN RemoveAt(secs[cur.k].reps, cur.a)
                 ELSE [secs[cur.k].reps EXCEPT ![cur.a].items = items1]
        secs1 == IF reps1 = <<>> THEN RemoveAt(secs, cur.k)
                 ELSE [secs EXCEPT ![cur.k].reps = reps1]
    IN [destroy(Emit(w, "removeChild", child, ""), child)
          EXCEPT !.comp[p].childDefault = IF cur.k = 0 THEN RemoveAt(@, cur.a) ELSE @,
                 !.comp[p].childSections = IF cur.k = 0 THEN @ ELSE secs1]

\* lines 1005-1013: eachChildComponent under the visitor of the orphan sweep
RECURSIVE SweepLoop(_, _, _)
SweepLoop(w, p, cur) ==
    IF cur.k = -1 THEN w
    ELSE LET child == CursorChild(w.comp[p], cur)
             Continue(w1) == SweepLoop(w1, p, CursorNext(w1.comp[p], cur))
         IN Continue(IF child # 0 /\ Orphan(w, p, child) THEN removeChild(w, p, cur) ELSE w)

\* lines 1024-1047: eachChildComponent under a visitor that calls removeChild()
\* for the children of `gone`
RECURSIVE EachLoop(_, _, _, _)
EachLoop(w, p, gone, cur) ==
    IF cur.k = -1 THEN w
    ELSE LET child == CursorChild(w.comp[p], cur)
             Continue(w1) == EachLoop(w1, p, gone, CursorNext(w1.comp[p], cur))
             Visit(w0) == IF child \in gone THEN removeChild(w0, p, cur) ELSE w0
         IN Continue(IF child # 0 THEN Visit(Emit(w, "visit", child, "")) ELSE w)

\* an iteration whose removal callback works in the default section only
eachChildDefaultOnly(w, p, gone) ==
    EachLoop(w, p, gone \cap Range(w.comp[p].childDefault),
             Cursor(0, "default", Len(w.comp[p].childDefault), 0))

eachChildComponent(w, p, gone) ==
    EachLoop(w, p, gone, Cursor(0, "default", Len(w.comp[p].childDefault), 0))

sweepChildren(w, p) ==
    SweepLoop(w, p, Cursor(0, "default", Len(w.comp[p].childDefault), 0))

-----------------------------------------------------------------------------
(* Reconciliation: refresh and _refresh (lines 894-1017) *)

\* lines 894-899
refresh(w, i) == queueRefresh([w EXCEPT !.comp[i].refreshList = RefreshTrue], i, "refresh")

\* jqDom.find(selector) in the tree of element e
Find(e, sel) == IF e.loading \/ e.id = 0 THEN <<>> ELSE SelSlots(sel)

\* lines 922-924: keep the first occurrence of every selector
RECURSIVE Dedup(_, _, _)
Dedup(s, k, acc) ==
    IF k > Len(s) THEN acc
    ELSE Dedup(s, k + 1, IF IndexOf(s, s[k]) = k THEN Append(acc, s[k]) ELSE acc)

\* lines 931-940: the inner loop for index a, from index b down
RECURSIVE PruneInner(_, _, _, _)
PruneInner(list, e, a, b) ==
    LET domCurr == Find(e, list[a])
        domCheck == Find(e, list[b])
        r == IF a = b THEN "next"
             ELSE IF domCheck = <<>> THEN "TypeError"
             ELSE IF domCurr # <<>> /\ SlotContains(domCheck[1], domCurr[1]) THEN "splice"
             ELSE "next"
    IN IF b = 0 THEN "keep"
       ELSE IF r = "next" THEN PruneInner(list, e, a, b - 1)
       ELSE r

\* lines 928-941: the outer loop from index a down
RECURSIVE PruneOuter(_, _, _)
PruneOuter(list, e, a) ==
    LET r == PruneInner(list, e, a, Len(list))
    IN IF a = 0 THEN [list |-> list, err |-> "none"]
       ELSE IF r = "TypeError" THEN [list |-> list, err |-> r]
       ELSE PruneOuter(IF r = "splice" THEN RemoveAt(list, a) ELSE list, e, a - 1)

\* Prune without the containment test of lines 934-938
PruneNothing(list, e) == [list |-> list, err |-> "none"]

\* lines 927-942
Prune(list, e) ==
    IF Len(list) > 1 THEN PruneOuter(list, e, Len(list))
    ELSE [list |-> list, err |-> "none"]

\* lines 952-961: one surviving selector
PatchOne(w, i, sel, new) ==
    LET jqOld == Find(w.comp[i].jqDom, sel)
        jqNew == Find(new, sel)
    IN IF Len(jqOld) > 1 \/ Len(jqNew) > 1
       THEN Throw(w, "AmbiguousTarget")
       ELSE IF Len(jqOld) = 1
       THEN Emit([w EXCEPT !.comp[i].slots =
                     [s \in Slots |-> IF SlotContains(jqOld[1], s) THEN new.id ELSE @[s]]],
                 "replaceWith", i, jqOld[1])
       ELSE w

\* lines 949-962: patch the surviving selectors, last first
RECURSIVE PatchLoop(_, _, _, _, _)
PatchLoop(w, i, list, k, new) ==
    IF k = 0 \/ Failed(w) THEN w
    ELSE PatchLoop(PatchOne(w, i, list[k], new), i, list, k - 1, new)

\* lines 966-971: re-anchor the inserted children that are now in this.jqDom
RECURSIVE AnchorContained(_, _, _, _, _)
AnchorContained(w, i, recs, n, new) ==
    IF n = 0 THEN w
    ELSE LET r == recs[n]
             c == w.comp[i]
             inTree == r.top \in Slots /\ c.slots[r.top] = new.id
             r1 == IF r.place.root = new.id
                   THEN [r EXCEPT !.place = [root |-> c.jqDom.id, slot |-> r.top,
                                             gen |-> new.id]]
                   ELSE r
         IN AnchorContained(IF inTree THEN AnchorOne(w, r1) ELSE w, i, recs, n - 1, new)

\* a partial pass that caches the tree it rendered as the root
refreshPartialCaching(w, i) ==
    LET c == w.comp[i]
        Anchor(w3, recs, new) ==
            IF Failed(w3) THEN w3
            ELSE [AnchorContained(w3, i, recs, Len(recs), new)
                     EXCEPT !.comp[i].refreshList = RefreshNone,
                            !.comp[i].jqDom = new]
        Patch(w2, list) ==
            IF Failed(w2) THEN w2
            ELSE Anchor(PatchLoop(w2, i, list, Len(list), w2.ret), w2.recs, w2.ret)
        Render(pr) ==
            IF pr.err # "none"
            THEN Throw([w EXCEPT !.comp[i].refreshList.sels = pr.list], pr.err)
            ELSE Patch(renderWithChildren(
                           [w EXCEPT !.comp[i].refreshList.sels = pr.list], i), pr.list)
    IN Render(Prune(Dedup(c.refreshList.sels, 1, <<>>), c.jqDom))

\* lines 919-974
refreshPartial(w, i) ==
    LET c == w.comp[i]
        \* lines 966-974
        Anchor(w3, recs, new) ==
            IF Failed(w3) THEN w3
            ELSE [AnchorContained(w3, i, recs, Len(recs), new)
                     EXCEPT !.comp[i].refreshList = RefreshNone]
        \* lines 949-962
        Patch(w2, list) ==
            IF Failed(w2) THEN w2
            ELSE Anchor(PatchLoop(w2, i, list, Len(list), w2.ret), w2.recs, w2.ret)
        \* lines 927-945
        Render(pr) ==
            IF pr.err # "none"
            THEN Throw([w EXCEPT !.comp[i].refreshList.sels = pr.list], pr.err)
            ELSE Patch(renderWithChildren(
                           [w EXCEPT !.comp[i].refreshList.sels = pr.list], i), pr.list)
    IN Render(Prune(Dedup(c.refreshList.sels, 1, <<>>), c.jqDom))

\* lines 919-974, with the pending selectors put on record first
refreshSelectors(w, i) ==
    LET sels == w.comp[i].refreshList.sels
    IN refreshPartial([w EXCEPT !.log = @ \o [k \in 1..Len(sels) |-> Ev("pending", i, sels[k])]],
                      i)

\* lines 981-994
refreshFull(w, i) ==
    LET jqOldComponent == w.comp[i].jqDom
        oldPlace == w.comp[i].place
        \* lines 988-994: the new root takes the place of the old one
        Replace(w1) ==
            IF Failed(w1) THEN w1
            ELSE Emit([w1 EXCEPT !.comp[i].place = oldPlace,
                                 !.comp[i].refreshList = RefreshNone],
                      "replaceWith", i, "root")
    IN Replace(render(w, i))

\* lines 1001-1014: the sweep timer, tagged with a random token
scheduleSweep(w, i) ==
    LET token == Head(w.rnd)
    IN [w EXCEPT !.comp[i].cleanUpChildren = token,
                 !.sweeps = Append(@, [inst |-> i, token |-> token]),
                 !.rnd = Tail(@)]

\* a _refresh that, having reconciled, clears the refresh state of every instance
_refreshEvery(w, i) ==
    LET c == w.comp[i]
        Sweep(w1) == IF Failed(w1) THEN w1 ELSE scheduleSweep(w1, i)
        Clear(w2) == [w2 EXCEPT !.comp = [j \in Inst |-> [@[j] EXCEPT !.refreshList = RefreshNone]]]
    IN IF c.initialized /\ c.delayRefresh = FALSE
       THEN IF c.jqDom.id = 0
            THEN render(Emit(w, "reconcile", i, "first"), i)
            ELSE Sweep(IF ~c.refreshList.full /\ Len(c.refreshList.sels) > 0
                       THEN Clear(refreshSelectors(Emit(w, "reconcile", i, "partial"), i))
                       ELSE IF c.refreshList.full
                       THEN Clear(refreshFull(Emit(w, "reconcile", i, "full"), i))
                       ELSE w)
       ELSE w

\* a _refresh that drops the refresh state when it finds the gate closed
_refreshGatedDrops(w, i) ==
    LET c == w.comp[i]
        Sweep(w1) == IF Failed(w1) THEN w1 ELSE scheduleSweep(w1, i)
    IN IF c.initialized /\ c.delayRefresh = FALSE
       THEN IF c.jqDom.id = 0
            THEN render(Emit(w, "reconcile", i, "first"), i)
            ELSE Sweep(IF ~c.refreshList.full /\ Len(c.refreshList.sels) > 0
                       THEN refreshSelectors(Emit(w, "reconcile", i, "partial"), i)
                       ELSE IF c.refreshList.full
                       THEN refreshFull(Emit(w, "reconcile", i, "full"), i)
                       ELSE w)
       ELSE [w EXCEPT !.comp[i].refreshList = RefreshNone]

\* a _refresh without the test of line 912
_refreshUngated(w, i) ==
    LET c == w.comp[i]
        Sweep(w1) == IF Failed(w1) THEN w1 ELSE scheduleSweep(w1, i)
    IN IF c.jqDom.id = 0
       THEN render(Emit(w, "reconcile", i, "first"), i)
       ELSE Sweep(IF ~c.refreshList.full /\ Len(c.refreshList.sels) > 0
                  THEN refreshSelectors(Emit(w, "reconcile", i, "partial"), i)
                  ELSE IF c.refreshList.full
                  THEN refreshFull(Emit(w, "reconcile", i, "full"), i)
                  ELSE w)

\* lines 904-1017
_refresh(w, i) ==
    LET c == w.comp[i]
        Sweep(w1) == IF Failed(w1) THEN w1 ELSE scheduleSweep(w1, i)
    IN IF c.initialized /\ c.delayRefresh = FALSE
       THEN IF c.jqDom.id = 0
            THEN render(Emit(w, "reconcile", i, "first"), i)
            ELSE Sweep(IF ~c.refreshList.full /\ Len(c.refreshList.sels) > 0
                       THEN refreshSelectors(Emit(w, "reconcile", i, "partial"), i)
                       ELSE IF c.refreshList.full
                       THEN refreshFull(Emit(w, "reconcile", i, "full"), i)
                       ELSE w)
       ELSE w

\* lines 133-137: the flush, newest closure first
RECURSIVE Flush(_, _)
Flush(w, i) ==
    IF i = 0 THEN [w EXCEPT !.uniqueIndex = <<>>]
    ELSE LET fn == w.refreshQueue[Len(w.refreshQueue)]
             Continue(w1) == IF Failed(w1) THEN w1 ELSE Flush(w1, i - 1)
         IN Continue(_refresh(Emit([w EXCEPT !.refreshQueue = SubSeq(@, 1, Len(@) - 1)],
                                   "pop", fn.self, fn.site), fn.self))

\* a timer callback that flushes whatever the queue length is
refreshCheckAlways(w, refreshCount) ==
    Flush(Emit(w, "flush", 0, ""), Len(w.refreshQueue))

\* lines 132-138: the timer callback of queueRefresh
refreshCheck(w, refreshCount) ==
    IF refreshCount = Len(w.refreshQueue)
    THEN Flush(Emit(w, "flush", 0, ""), Len(w.refreshQueue))
    ELSE w

\* lines 1003-1014: the timer callback of _refresh
sweepCheck(w, i, cleanUpTime) ==
    IF cleanUpTime = w.comp[i].cleanUpChildren
    THEN sweepChildren(Emit(w, "sweep", i, ""), i)
    ELSE w

-----------------------------------------------------------------------------
(* Actions *)

\* the handler has run to completion in world `done`: its effects become the
\* next state, and what it did is put on record in last
Commit(done, op, i, arg) ==
    \E w \in {done} :
        /\ w.nextElmt <= MaxElmt + 1
        /\ comp' = w.comp
        /\ baseClassInstance' = w.baseClassInstance
        /\ refreshQueue' = w.refreshQueue
        /\ uniqueIndex' = w.uniqueIndex
        /\ checks' = w.checks
        /\ sweeps' = w.sweeps
        /\ groups' = w.groups
        /\ nextElmt' = w.nextElmt
        /\ nextArr' = w.nextArr
        /\ last' = [op |-> op, inst |-> i, arg |-> arg, ret |-> w.ret, log |-> w.log,
                    err |-> w.err]

\* lines 164-451: new Component(className, defaults, data, options)
construct(w, i, cfg) ==
    LET w1 == [w EXCEPT !.comp[i] = NewComp(cfg), !.baseClassInstance = @ + 1]
        \* an exception leaves the caller of new without the object
        Lost(w2) == IF Failed(w2)
                    THEN [w2 EXCEPT !.comp[i].exists = FALSE, !.comp[i].observed = FALSE]
                    ELSE w2
    IN IF cfg.delayInit = FALSE THEN Lost(init(w1, i)) ELSE w1

\* a write through this.data: ObservableSlim calls the handler of line 348 with
\* the change records, unless the proxy was removed (line 1097)
Mutate(i, changes) ==
    /\ comp[i].exists
    /\ ops > 0
    /\ ops' = ops - 1
    /\ Commit(IF comp[i].observed THEN onChange(Emit(World, "onChange", i, ""), i, changes)
              ELSE World, "mutate", i, changes)

RenderCall(i) ==
    /\ comp[i].exists
    /\ ops > 0
    /\ ops' = ops - 1
    /\ Commit(render(World, i), "render", i, <<>>)

RefreshCall(i) ==
    /\ comp[i].exists
    /\ ops > 0
    /\ ops' = ops - 1
    /\ Commit(refresh(World, i), "refresh", i, <<>>)

DestroyCall(i) ==
    /\ comp[i].exists
    /\ ops > 0
    /\ ops' = ops - 1
    /\ Commit(destroy(World, i), "destroy", i, <<>>)

\* the members of S in increasing order
RECURSIVE Ascending(_)
Ascending(S) ==
    IF S = {} THEN <<>>
    ELSE LET Least(m) == <<m>> \o Ascending(S \ {m})
         IN Least(CHOOSE x \in S : \A y \in S : x <= y)

\* eachChildComponent(handler), the handler calling removeChild() for the
\* children of `gone`
EachChildCall(p, gone) ==
    /\ comp[p].exists
    /\ ops > 0
    /\ ops' = ops - 1
    /\ Commit(eachChildComponent(World, p, gone), "eachChild", p, Ascending(gone))

\* registerChild(child): cycles in the registry are excluded (c > p)
RegisterDefault(p, c) ==
    /\ comp[p].exists /\ comp[c].exists /\ c > p
    /\ ops > 0
    /\ ops' = ops - 1
    /\ Commit(registerDefault(World, p, c), "registerChild", p, <<>>)

\* registerChild([children], sectionName) with a new array
RegisterSection(p, items, name) ==
    /\ comp[p].exists
    /\ \A k \in DOMAIN items : comp[items[k]].exists /\ items[k] > p
    /\ ops > 0
    /\ ops' = ops - 1
    /\ Commit(registerSection([World EXCEPT !.nextArr = @ + 1], p,
                              [isArray |-> TRUE, aid |-> nextArr, items |-> items], name),
              "registerChild", p, <<name, "array">>)

\* registerChild(arr, sectionName) with the array of repetition a of that
\* section, which the caller kept
RegisterSame(p, name, a) ==
    /\ comp[p].exists
    /\ ops > 0
    /\ \E k \in DOMAIN comp[p].childSections :
          /\ comp[p].childSections[k].name = name
          /\ a \in DOMAIN comp[p].childSections[k].reps
          /\ Commit(registerSection(World, p,
                                    [isArray |-> TRUE,
                                     aid |-> comp[p].childSections[k].reps[a].aid,
                                     items |-> comp[p].childSections[k].reps[a].items], name),
                    "registerChild", p, <<name, "same">>)
    /\ ops' = ops - 1

\* registerChild(child, sectionName): a component where an array is required
RegisterNonArray(p, c, name) ==
    /\ comp[p].exists /\ comp[c].exists /\ c > p
    /\ ops > 0
    /\ ops' = ops - 1
    /\ Commit(registerSection(World, p, [isArray |-> FALSE, aid |-> 0, items |-> <<>>], name),
              "registerChild", p, <<name, "component">>)

\* the data changes what the template emits (no binding involved)
SetView(i, v) ==
    /\ comp[i].exists
    /\ comp[i].view # v
    /\ ops > 0
    /\ ops' = ops - 1
    /\ Commit([World EXCEPT !.comp[i].view = v], "setView", i, <<>>)

\* a resolution after which the .then of the group runs for every task of it
TaskResolveEach(k) ==
    /\ k \in DOMAIN groups
    /\ LET g == groups[k]
       IN IF g.left > 1
          THEN Commit(GroupThen([World EXCEPT !.groups[k].left = @ - 1], g), "resolve",
                      g.inst, <<>>)
          ELSE Commit(GroupThen([World EXCEPT !.groups = RemoveAt(@, k)], g), "settle", g.inst,
                      IF g.loadMask THEN <<g.kind, "delayRefresh">> ELSE <<g.kind>>)
    /\ UNCHANGED ops

\* one task of group k calls resolve(); the group's .then runs when it was the last
TaskResolve(k) ==
    /\ k \in DOMAIN groups
    /\ LET g == groups[k]
       IN IF g.left > 1
          THEN Commit([World EXCEPT !.groups[k].left = @ - 1], "resolve", g.inst, <<>>)
          ELSE Commit(GroupThen([World EXCEPT !.groups = RemoveAt(@, k)], g), "settle", g.inst,
                      IF g.loadMask THEN <<g.kind, "delayRefresh">> ELSE <<g.kind>>)
    /\ UNCHANGED ops

\* a rejection that takes every group of the instance down with it
TaskRejectAll(k) ==
    /\ k \in DOMAIN groups
    /\ Commit(Emit([World EXCEPT !.groups = SelectSeq(@, LAMBDA g : g.inst # groups[k].inst)],
                   "console.error", groups[k].inst, groups[k].kind),
              "reject", groups[k].inst,
              IF groups[k].loadMask THEN <<groups[k].kind, "delayRefresh">>
              ELSE <<groups[k].kind>>)
    /\ UNCHANGED ops

\* a rejection after which the .then of the group runs all the same
TaskRejectThen(k) ==
    /\ k \in DOMAIN groups
    /\ Commit(GroupThen(Emit([World EXCEPT !.groups = RemoveAt(@, k)], "console.error",
                             groups[k].inst, groups[k].kind), groups[k]),
              "reject", groups[k].inst,
              IF groups[k].loadMask THEN <<groups[k].kind, "delayRefresh">>
              ELSE <<groups[k].kind>>)
    /\ UNCHANGED ops

\* one task of group k calls reject(): Promise.all rejects, the .then is skipped
\* and the .catch logs (lines 490-495, 530, 544, 594-599, 621)
TaskReject(k) ==
    /\ k \in DOMAIN groups
    /\ Commit(Emit([World EXCEPT !.groups = RemoveAt(@, k)], "console.error",
                   groups[k].inst, groups[k].kind),
              "reject", groups[k].inst,
              IF groups[k].loadMask THEN <<groups[k].kind, "delayRefresh">>
              ELSE <<groups[k].kind>>)
    /\ UNCHANGED ops

\* how many times the flush of this check calls Math.random (line 1001): once
\* per sweep it schedules, whatever the values drawn
Draws ==
    LET any == [k \in 1..Len(refreshQueue) |-> 1]
    IN Len(refreshCheck([World EXCEPT !.checks = Tail(@), !.rnd = any],
                        Head(checks)).sweeps) - Len(sweeps)

\* the oldest 10 ms timer fires; toks are the values Math.random may give
CheckFire(toks) ==
    /\ checks # <<>>
    /\ \E rnd \in [1..Draws -> toks] :
          Commit(refreshCheck([World EXCEPT !.checks = Tail(@), !.rnd = rnd], Head(checks)),
                 "check", 0, <<>>)
    /\ UNCHANGED ops

\* the oldest 500 ms timer fires
SweepFire ==
    /\ sweeps # <<>>
    /\ Commit(sweepCheck([World EXCEPT !.sweeps = Tail(@)], Head(sweeps).inst,
                         Head(sweeps).token),
              "sweepTimer", Head(sweeps).inst, <<>>)
    /\ UNCHANGED ops

Idle == [op |-> "none", inst |-> 0, arg |-> <<>>, ret |-> NullElmt, log |-> <<>>,
         err |-> "none"]

\* the state of the factory closure before any component is constructed
Empty ==
    [ comp |-> [i \in Inst |-> NoComp], baseClassInstance |-> 0,
      refreshQueue |-> <<>>, uniqueIndex |-> <<>>, checks |-> <<>>, sweeps |-> <<>>,
      groups |-> <<>>, nextElmt |-> 1, nextArr |-> 1,
      log |-> <<>>, err |-> "none", ret |-> NullElmt, recs |-> <<>>,
      cnt |-> [t \in TagNames |-> 0], cl |-> [t \in TagNames |-> 0],
      secOn |-> FALSE, rnd |-> <<>> ]

RECURSIVE ConstructAll(_, _, _)
ConstructAll(w, cfgs, i) ==
    IF i > Len(cfgs) THEN w ELSE ConstructAll(construct(w, i, cfgs[i]), cfgs, i + 1)

\* the states after constructing one component per configuration of cfgs
Constructed(cfgs, budget) ==
    LET w == ConstructAll(Empty, cfgs, 1)
    IN /\ comp = w.comp
       /\ baseClassInstance = w.baseClassInstance
       /\ refreshQueue = w.refreshQueue
       /\ uniqueIndex = w.uniqueIndex
       /\ checks = w.checks
       /\ sweeps = w.sweeps
       /\ groups = w.groups
       /\ nextElmt = w.nextElmt
       /\ nextArr = w.nextArr
       /\ last = [Idle EXCEPT !.op = "new", !.log = w.log]
       /\ ops = budget

Cfg(d, il, t) == [delayInit |-> d, initList |-> il, tagName |-> t, callable |-> Methods]

\* a class that does not define the method its data bindings name
CfgNoMethod(d, il, t) == [Cfg(d, il, t) EXCEPT !.callable = Methods \ {"m1"}]

\* mutation batches: the change records of one write, in emission order
Batches ==
    { <<"p">>, <<"q">>, <<"r">>, <<"x">>, <<"y">>, <<"u">>,
      <<"q", "r">>, <<"r", "q">>, <<"p", "q">>, <<"q", "p">> }

(* Spec: one component, constructed; data mutations, render(), refresh(),    *)
(* task settlements and the timers.                                         *)
MainConfigs ==
    { Cfg(FALSE, <<>>, "t1"),
      Cfg(FALSE, <<InitEntry("i1", TRUE, "none")>>, "t1"),
      Cfg(TRUE, <<>>, "t1") }

Init == \E cfg \in MainConfigs : Constructed(<<cfg>>, MaxOps)

Next ==
    \/ \E i \in Inst, changes \in Batches : Mutate(i, changes)
    \/ \E i \in Inst : RenderCall(i)
    \/ \E i \in Inst : RefreshCall(i)
    \/ \E k \in 1..(2 * MaxOps) : TaskResolve(k)
    \/ \E k \in 1..(2 * MaxOps) : TaskReject(k)
    \/ CheckFire({1})
    \/ SweepFire

\* (a single component has no child to sweep: one value of Math.random is enough)
Spec == Init /\ [][Next]_vars

-----------------------------------------------------------------------------
(* SpecInit: components are constructed with every kind of init list, then   *)
(* rendered while their init tasks settle.  A pending task settles and a     *)
(* setTimeout callback runs: weak fairness on the settlements and on the     *)
(* head of each timer queue leaving it.                                     *)

InitConfigs == {Cfg(d, il, "t1") : d \in BOOLEAN, il \in InitLists}

EmptyInit == Constructed(<<>>, MaxOps)

NewCall(i, cfg) ==
    /\ ops > 0
    /\ ops' = ops - 1
    /\ i = baseClassInstance + 1
    /\ Commit(construct(World, i, cfg), "new", i, <<>>)

Settle == \E k \in 1..(2 * MaxOps) : TaskResolve(k) \/ TaskReject(k)

NextInit ==
    \/ \E i \in Inst, cfg \in InitConfigs : NewCall(i, cfg)
    \/ \E i \in Inst : RenderCall(i)
    \/ \E k \in 1..(2 * MaxOps) : TaskResolve(k)
    \/ \E k \in 1..(2 * MaxOps) : TaskReject(k)
    \/ CheckFire(Tokens)
    \/ SweepFire

\* the oldest timer of queueRefresh (line 132), of _refresh (line 1003) fires
CheckTimer == checks # <<>> /\ checks' = Tail(checks)
SweepTimer == sweeps # <<>> /\ sweeps' = Tail(sweeps)

SpecInit ==
    /\ EmptyInit /\ [][NextInit]_vars
    /\ WF_vars(Settle) /\ WF_checks(CheckTimer) /\ WF_sweeps(SweepTimer)

-----------------------------------------------------------------------------
(* SpecTree: a parent (1) with two children (2, 3) registered in every shape *)
(* of registry.  The parent's template changes its placeholders (SetView),   *)
(* the parent is rendered, refreshed and destroyed, and the data of every    *)
(* component is mutated.                                                    *)

TreeShapes == {"default", "mixed", "reps", "pair", "chain"}

\* the registerChild calls of the constructors, per shape
Registered(w, shape) ==
    LET Arr(w1, p, items, name) ==
            registerSection([w1 EXCEPT !.nextArr = @ + 1], p,
                            [isArray |-> TRUE, aid |-> w1.nextArr, items |-> items], name)
    IN CASE shape = "default" -> registerDefault(registerDefault(w, 1, 2), 1, 3)
         [] shape = "mixed" -> Arr(registerDefault(w, 1, 2), 1, <<3>>, "rows")
         [] shape = "reps" -> Arr(Arr(w, 1, <<2>>, "rows"), 1, <<3>>, "rows")
         [] shape = "pair" -> Arr(w, 1, <<2, 3>>, "rows")
         [] OTHER -> registerDefault(registerDefault(w, 2, 3), 1, 2)

TreeConfigs ==
    { <<Cfg(FALSE, <<>>, "t1"), Cfg(FALSE, <<>>, "t1"), Cfg(FALSE, il, "t2")>> :
        il \in {<<>>, <<InitEntry("i1", TRUE, "none")>>} }

TreeInit ==
    \E cfgs \in TreeConfigs, shape \in TreeShapes :
        LET w == Registered(ConstructAll(Empty, cfgs, 1), shape)
        IN /\ comp = w.comp
           /\ baseClassInstance = w.baseClassInstance
           /\ refreshQueue = w.refreshQueue
           /\ uniqueIndex = w.uniqueIndex
           /\ checks = w.checks
           /\ sweeps = w.sweeps
           /\ groups = w.groups
           /\ nextElmt = w.nextElmt
           /\ nextArr = w.nextArr
           /\ last = [Idle EXCEPT !.op = "new", !.log = w.log]
           /\ ops = MaxOps

\* the writes made here: a path with a ui binding on any component, and a path
\* with a ui binding and a data binding on a destroyed one (what data bindings
\* do on a live component is the subject of Spec)
TreeBatches(i) == IF comp[i].observed THEN { <<"r">> } ELSE { <<"r">>, <<"p">> }

NextTree ==
    \/ \E v \in Views : SetView(1, v)
    \/ RenderCall(1)
    \/ RefreshCall(1)
    \/ DestroyCall(1)
    \/ \E i \in Inst : \E changes \in TreeBatches(i) : Mutate(i, changes)
    \/ \E k \in 1..(2 * MaxOps) : TaskResolve(k)
    \/ CheckFire(Tokens)
    \/ SweepFire

SpecTree == TreeInit /\ [][NextTree]_vars

-----------------------------------------------------------------------------
(* SpecFail: two components, one with an active and a passive init task and  *)
(* one without init tasks, whose data is written at the path of a data       *)
(* binding while tasks resolve and reject.                                   *)

FailConfigs ==
    << Cfg(FALSE, <<InitEntry("i1", TRUE, "none"), InitEntry("i2", FALSE, "none")>>, "t1"),
       Cfg(FALSE, <<>>, "t1") >>

FailInit == Constructed(FailConfigs, MaxOps)

\* the path of the data binding with delayRefresh = true (two tasks, load mask)
FailBatches == { <<"p">> }

NextFail ==
    \/ \E i \in Inst, changes \in FailBatches : Mutate(i, changes)
    \/ \E k \in 1..(2 * MaxOps) : TaskResolve(k)
    \/ \E k \in 1..(2 * MaxOps) : TaskReject(k)
    \/ CheckFire({1})
    \/ SweepFire

SpecFail == FailInit /\ [][NextFail]_vars

-----------------------------------------------------------------------------
(* SpecReg: a parent (1) and five components (2..6) that are registered on   *)
(* it, and on one another, by registerChild calls of every form; the parent's *)
(* template changes its placeholders and the parent is rendered.             *)

RegConfigs ==
    << Cfg(FALSE, <<>>, "t1"), Cfg(FALSE, <<>>, "t1"), Cfg(FALSE, <<>>, "t1"),
       Cfg(FALSE, <<>>, "t2"), Cfg(FALSE, <<>>, "t1"), Cfg(FALSE, <<>>, "t2") >>

\* what the template of component 3 emits: every placeholder, or one child tag
\* beside the section placeholder
RegViews == {FullView, View({"t2"}, SectionNames, {"t1"})}

RegInit ==
    \E v \in RegViews :
        LET w == [ConstructAll(Empty, RegConfigs, 1) EXCEPT !.comp[3].view = v]
        IN /\ comp = w.comp
           /\ baseClassInstance = w.baseClassInstance
           /\ refreshQueue = w.refreshQueue
           /\ uniqueIndex = w.uniqueIndex
           /\ checks = w.checks
           /\ sweeps = w.sweeps
           /\ groups = w.groups
           /\ nextElmt = w.nextElmt
           /\ nextArr = w.nextArr
           /\ last = [Idle EXCEPT !.op = "new", !.log = w.log]
           /\ ops = MaxRegs

\* the arrays handed to registerChild: one repetition each
RegItems == { <<3, 4>>, <<5, 6>>, <<3, 5>>, <<3>> }

NextReg ==
    \/ \E p \in {1, 2, 3}, c \in Inst : RegisterDefault(p, c)
    \/ \E items \in RegItems, name \in SectionNames : RegisterSection(1, items, name)
    \/ \E name \in SectionNames, a \in 1..MaxRegs : RegisterSame(1, name, a)
    \/ \E c \in Inst, name \in SectionNames : RegisterNonArray(1, c, name)
    \/ \E v \in Views : SetView(1, v)
    \/ RenderCall(1)

SpecReg == RegInit /\ [][NextReg]_vars

-----------------------------------------------------------------------------
(* SpecEach: the registries of SpecReg, iterated by eachChildComponent under  *)
(* visitors that remove any subset of the children.                          *)

NextEach ==
    \/ \E p \in {1, 2, 3}, c \in Inst : RegisterDefault(p, c)
    \/ \E items \in RegItems, name \in SectionNames : RegisterSection(1, items, name)
    \/ \E name \in SectionNames, a \in 1..MaxRegs : RegisterSame(1, name, a)
    \/ \E gone \in SUBSET (Inst \ {1}) : EachChildCall(1, gone)

SpecEach == RegInit /\ [][NextEach]_vars

-----------------------------------------------------------------------------
(* SpecBind: components of a class that defines the method of its data       *)
(* bindings and of one that does not, constructed with and without           *)
(* delayInit, rendered, their init tasks settling.                           *)

BindLists ==
    { <<>>, <<InitEntry("i1", TRUE, "true"), InitEntry("i2", FALSE, "none")>> }

BindConfigs ==
    {Cfg(d, il, "t1") : d \in BOOLEAN, il \in BindLists}
    \cup {CfgNoMethod(d, il, "t1") : d \in BOOLEAN, il \in BindLists}

NextBind ==
    \/ \E i \in Inst, cfg \in BindConfigs : NewCall(i, cfg)
    \/ \E i \in Inst : RenderCall(i)
    \/ \E k \in 1..(2 * MaxOps) : TaskResolve(k)
    \/ \E k \in 1..(2 * MaxOps) : TaskReject(k)
    \/ CheckFire({1})
    \/ SweepFire

SpecBind == EmptyInit /\ [][NextBind]_vars

-----------------------------------------------------------------------------

(* Properties.  last describes the step that led to the current state; in an *)
(* action formula the unprimed variables are the state the handler started   *)
(* in and last' is what it did.                                              *)

\* the positions of an event in a log
Events(log, ev, i) == {k \in DOMAIN log : log[k].ev = ev /\ log[k].inst = i}

\* the reconciliation passes of instance i in a log: the render-and-replace
\* work of a _refresh that passed its gate
Reconciles(log, i) == Cardinality(Events(log, "reconcile", i))

\* the template evaluations in a log
Evaluations(log) == {k \in DOMAIN log : log[k].ev \in {"_render", "renderLoading"}}

\* the step was a check that flushed the queue
Flushed(l) == l.op = "check" /\ Len(l.log) > 0 /\ l.log[1].ev = "flush"

\* the closures queued for instance i
Queued(i) == {k \in DOMAIN refreshQueue : refreshQueue[k].self = i}

\* a fetch group of i started with delayRefresh = true has not settled
GatedFetchInFlight(i) ==
    \E k \in DOMAIN groups : groups[k].inst = i /\ groups[k].kind = "fetch"
                              /\ groups[k].loadMask

----
\* one step, as C1 requires it (stated below)
C1_Step ==
    Flushed(last') =>
        \A i \in Inst :
            ( /\ Queued(i) # {}
              /\ \A k \in Queued(i) : refreshQueue[k].site = "handler"
              /\ comp[i].initialized /\ ~comp[i].delayRefresh )
            => Reconciles(last'.log, i) = 1

\* C1: for a burst of N >= 1 mutation batches on an initialized instance, each
\* matching a UI binding and each made before the check of the previous request
\* fired, the flush runs the reconciliation of the instance exactly once: in
\* every flush, an instance whose queued requests all come from the change
\* handler, and which is not gated, has exactly one reconciliation pass.
C1_OncePerFlush == [][C1_Step]_vars

----
\* the instance is settled: initialized, refresh state empty, rendered once
Settled(c) == c.initialized /\ c.refreshList = RefreshNone /\ c.initRendered

\* one step, as C2 requires it (stated below)
C2_Step ==
    \A i \in Inst :
        (last'.op = "render" /\ last'.inst = i /\ Settled(comp[i]))
        => /\ last'.ret = comp[i].jqDom
           /\ Evaluations(last'.log) = {}
           /\ last'.log = <<>>
           /\ comp' = comp
           /\ refreshQueue' = refreshQueue /\ uniqueIndex' = uniqueIndex
           /\ checks' = checks /\ sweeps' = sweeps /\ groups' = groups
           /\ nextElmt' = nextElmt

\* C2: render() on a settled instance returns the cached reference (the result
\* of the previous render), evaluates no template and changes no state of any
\* instance, of the queue, of the timers or of the task groups.
C2_RenderIdempotent == [][C2_Step]_vars

\* a render() call on a settled instance has returned its cached element
C2_Witness ==
    /\ last.op = "render"
    /\ Settled(comp[last.inst])
    /\ last.log = <<>>
    /\ last.ret.id # 0
    /\ last.ret = comp[last.inst].jqDom

----
\* C3: for an initialized instance, (a) a mutation at the path of a data
\* binding with delayRefresh = true sets the gate and shows the load mask
\* before the refresh is queued; (b) no reconciliation of the instance runs
\* while a fetch group started by such a mutation has not settled; (c) when
\* that group resolves the gate is cleared, the load mask is hidden and the
\* pending refresh is queued.
C3_Claim ==
    \A i \in Inst :
        /\ ( /\ last.op = "mutate" /\ last.inst = i /\ "p" \in Range(last.arg)
             /\ Events(last.log, "onChange", i) # {} /\ comp[i].initialized )
           => /\ comp[i].delayRefresh
              /\ Events(last.log, "showLoadMask", i) # {}
              /\ \A m \in Events(last.log, "showLoadMask", i),
                    q \in Events(last.log, "queueRefresh", i) : m < q
        /\ Reconciles(last.log, i) > 0 => ~GatedFetchInFlight(i)
        /\ (last.op = "settle" /\ last.inst = i /\ last.arg = <<"fetch", "delayRefresh">>)
           => /\ ~comp[i].delayRefresh
              /\ Events(last.log, "hideLoadMask", i) # {}
              /\ RefreshPending(comp[i].refreshList)
                 => Events(last.log, "queueRefresh", i) # {}

----
\* one step, as C7 requires it (stated below)
C7_Step ==
    \A i \in Inst :
        /\ ( /\ last'.op = "mutate" /\ last'.inst = i /\ "p" \in Range(last'.arg)
             /\ comp[i].initialized /\ comp[i].observed )
           => comp'[i].refreshList = RefreshTrue
        /\ (comp[i].refreshList.full /\ Reconciles(last'.log, i) > 0)
           => /\ \A k \in Events(last'.log, "reconcile", i) :
                    last'.log[k].arg \in {"full", "first"}
              /\ comp'[i].jqDom.id >= nextElmt
              /\ ~comp'[i].jqDom.loading
              /\ comp'[i].slots = [s \in Slots |-> comp'[i].jqDom.id]

\* C7: for an initialized instance with a UI binding of value true for path
\* "p", a mutation batch with a change at "p" leaves the refresh state equal to
\* true whatever was pending and whatever else matches; and a reconciliation
\* that starts with refresh state true is never partial and ends with a fresh
\* root element.
C7_FullIsSticky == [][C7_Step]_vars

\* the handler has processed a batch with a change at "p" and a change at a
\* selector-bound path on a rendered instance, and refresh state is true
C7_Witness ==
    /\ last.op = "mutate" /\ last.arg = <<"q", "p">>
    /\ Events(last.log, "onChange", last.inst) # {}
    /\ comp[last.inst].refreshList = RefreshTrue
    /\ comp[last.inst].initRendered

----
\* the elements patched for i in a log, and the selectors that were pending
Patched(log, i) == {log[k].arg : k \in Events(log, "replaceWith", i)} \ {"root"}
Pending(log, i) == {log[k].arg : k \in Events(log, "pending", i)}

\* C8: in a partial reconciliation no element is patched twice and no patched
\* element lies inside another patched element; when the pass completes, the
\* element of every pending selector that matches one element is equal to or
\* inside exactly one patched element; with '.a' and '.b' pending, '.b' inside
\* '.a', only the element of '.a' is patched.
C8_PartialPrune ==
    \A i \in Inst :
        (\E k \in Events(last.log, "reconcile", i) : last.log[k].arg = "partial")
        => /\ Cardinality(Events(last.log, "replaceWith", i))
                = Cardinality(Patched(last.log, i))
           /\ \A x, y \in Patched(last.log, i) : x # y => ~SlotContains(x, y)
           /\ last.err = "none"
              => /\ \A sel \in Pending(last.log, i) :
                       Len(SelSlots(sel)) = 1
                       => Cardinality({x \in Patched(last.log, i) :
                                          SlotContains(x, SelSlots(sel)[1])}) = 1
                 /\ {".a", ".b"} \subseteq Pending(last.log, i)
                    => ("A" \in Patched(last.log, i) /\ "B" \notin Patched(last.log, i))

\* a partial pass with '.a' and '.b' pending has completed
C8_Witness ==
    \E i \in Inst :
        /\ Flushed(last) /\ last.err = "none"
        /\ Pending(last.log, i) = {".a", ".b", ".c"}
        /\ Patched(last.log, i) = {"A", "C"}

----
\* C6: isReady() returns true only if the component is initialized and is
\* processing no fetch method and no display update, also when it was
\* constructed with delayInit = true.
C6_Claim ==
    \A i \in Inst :
        (comp[i].exists /\ isReady(World, i))
        => /\ comp[i].initialized
           /\ comp[i].pendingFetchCount = 0
           /\ ~RefreshPending(comp[i].refreshList)

----
\* a task group of i was rejected: its count is never given back
Stuck(i) ==
    comp[i].pendingFetchCount > Cardinality({k \in DOMAIN groups : groups[k].inst = i})

C4_State ==
    \A i \in Inst :
        \* a render() made while the active tasks are unresolved returns the
        \* loading view
        /\ (last.op = "render" /\ last.inst = i /\ comp[i].pendingInit)
           => (last.ret.loading /\ comp[i].jqDom = last.ret)
        \* when the active group resolves, refresh state is true and a refresh
        \* is scheduled
        /\ (last.op = "settle" /\ last.inst = i /\ last.arg = <<"active">>)
           => /\ comp[i].initialized /\ ~comp[i].pendingInit
              /\ comp[i].refreshList = RefreshTrue
              /\ \E k \in DOMAIN refreshQueue : refreshQueue[k].self = i
              /\ checks # <<>> /\ checks[Len(checks)] = Len(refreshQueue)

C4_Step ==
    \A i \in Inst :
        \* the flush replaces the loading view of an initialized instance with
        \* the real content
        (Flushed(last') /\ Queued(i) # {} /\ comp[i].initialized /\ comp[i].jqDom.loading)
        => /\ ~comp'[i].jqDom.loading
           /\ comp'[i].jqDom.id >= nextElmt
           /\ \E k \in DOMAIN last'.log : last'.log[k] = Ev("replaceWith", i, "root")
           /\ comp'[i].refreshList = RefreshNone

\* C4: for an instance with an active init task: render() before the active
\* tasks resolve returns the loading view; when they have resolved, refresh
\* state is true and a refresh is scheduled; the flush replaces the loading
\* view with the real content; and isReady() eventually becomes true unless one
\* of the instance's task groups was rejected.
C4_LoadingThenReady ==
    /\ []C4_State
    /\ [][C4_Step]_vars
    /\ \A i \in Inst : comp[i].jqDom.loading ~> (isReady(World, i) \/ Stuck(i))

\* the flush has replaced the root of an instance with an active init task,
\* and the instance is ready
C4_Witness ==
    \E i \in Inst :
        /\ Flushed(last)
        /\ \E k \in DOMAIN last.log : last.log[k] = Ev("replaceWith", i, "root")
        /\ \E k \in DOMAIN comp[i].initList : comp[i].initList[k].preventRender
        /\ comp[i].initialized /\ ~comp[i].jqDom.loading
        /\ isReady(World, i)

----
\* the children registered on c, in whatever section and repetition
RegisteredChildren(c) ==
    Range(c.childDefault)
    \cup UNION { UNION { Range(c.childSections[k].reps[a].items) :
                           a \in DOMAIN c.childSections[k].reps } :
                 k \in DOMAIN c.childSections }

----
\* a sweep timer of p that no later pass has superseded is pending
SweepPending(p) ==
    \E k \in DOMAIN sweeps : sweeps[k].inst = p /\ sweeps[k].token = comp[p].cleanUpChildren

\* the step is a full reconciliation of p that has completed
FullPass(l, p) ==
    /\ l.err = "none"
    /\ \E k \in Events(l.log, "reconcile", p) : l.log[k].arg = "full"

\* one step, as C9 requires it (stated below)
C9_Step ==
    \A p \in Inst :
        /\ FullPass(last', p)
           => /\ sweeps' # <<>>
              /\ \E k \in DOMAIN sweeps' :
                    /\ sweeps'[k] = [inst |-> p, token |-> comp'[p].cleanUpChildren]
                    /\ k > Len(sweeps) - (IF last'.op = "sweepTimer" THEN 1 ELSE 0)
        /\ \A c \in RegisteredChildren(comp[p]) :
              ( /\ SweepPending(p) /\ Orphan(World, p, c)
                /\ last'.op # "sweepTimer"
                /\ Reconciles(last'.log, p) = 0
                /\ c \in RegisteredChildren(comp'[p]) )
              => Orphan(World, p, c)'
        /\ ( /\ last'.op = "sweepTimer" /\ Head(sweeps).inst = p
             /\ Head(sweeps).token = comp[p].cleanUpChildren )
           => \A c \in RegisteredChildren(comp[p]) :
                 IF Orphan(World, p, c)
                 THEN /\ c \notin RegisteredChildren(comp'[p])
                      /\ Events(last'.log, "destroy", c) # {}
                      /\ ~comp'[c].observed
                      /\ RegisteredChildren(comp'[c]) = {}
                      /\ comp'[c].place = NoPlace
                 ELSE /\ c \in RegisteredChildren(comp'[p])
                      /\ comp'[c] = comp[c]

\* C9: (a) a full reconciliation of p schedules an orphan sweep, tagged with
\* the token p holds afterwards; (b) a registered child whose element is not in
\* p's tree stays out of it as long as that sweep is pending and no later pass
\* of p has run; (c) when a sweep that was not superseded fires, every
\* registered child whose element is not in the tree (or that was never
\* rendered) is destroyed and gone from the registry, and every child whose
\* element is in the tree is still registered and untouched.
C9_OrphanSweep == [][C9_Step]_vars

\* the sweep of a parent whose whole tree comes from one render of its root
\* has removed a child that had been rendered into an earlier root, and has
\* kept a child whose element is in the tree
C9_Witness ==
    \E c, d \in Inst :
        /\ last.op = "sweepTimer" /\ last.inst = 1
        /\ Events(last.log, "removeChild", c) # {}
        /\ comp[c].jqDom.id # 0
        /\ ~comp[c].observed
        /\ c \notin RegisteredChildren(comp[1])
        /\ d \in RegisteredChildren(comp[1])
        /\ Contains(World, 1, d)
        /\ comp[1].slots = [s \in Slots |-> comp[1].jqDom.id]

----
\* the instances registered below the instances of S, down to depth n
RECURSIVE Descendants(_, _)
Descendants(S, n) ==
    IF n = 0 THEN S
    ELSE Descendants(S \cup UNION {RegisteredChildren(comp[c]) : c \in S}, n - 1)

\* one step, as C10 requires it (stated below)
C10_Step ==
    \A i \in Inst :
        /\ (last'.op = "destroy" /\ last'.inst = i)
           => LET log == last'.log
                  own == Events(log, "ObservableSlim.remove", i)
                  rem == Events(log, "jqDom.remove", i)
              IN /\ Cardinality(own) = 1
                 /\ \A c \in Descendants(RegisteredChildren(comp[i]), NInst) :
                       /\ Events(log, "destroy", c) # {}
                       /\ Events(log, "ObservableSlim.remove", c) # {}
                       /\ comp[c].jqDom.id # 0 => Events(log, "jqDom.remove", c) # {}
                       /\ \A k \in Events(log, "destroy", c)
                                   \cup Events(log, "ObservableSlim.remove", c)
                                   \cup Events(log, "jqDom.remove", c),
                             m \in own \cup rem : k < m
                       /\ ~comp'[c].observed
                       /\ RegisteredChildren(comp'[c]) = {}
                 /\ \A k \in own, m \in rem : k < m
                 /\ comp[i].jqDom.id # 0 <=> rem # {}
                 /\ comp'[i].childDefault = <<>> /\ comp'[i].childSections = <<>>
                 /\ ~comp'[i].observed
        /\ (comp[i].exists /\ ~comp[i].observed) => ~comp'[i].observed
        /\ (last'.op = "mutate" /\ last'.inst = i /\ ~comp[i].observed)
           => /\ last'.log = <<>>
              /\ comp' = comp
              /\ refreshQueue' = refreshQueue /\ checks' = checks
              /\ groups' = groups /\ sweeps' = sweeps

\* C10: destroy() of i destroys every instance registered below i, in every
\* section and repetition, before it detaches i's observable and removes i's
\* element; afterwards the registry of i is empty; the observable stays
\* detached, and a mutation of the data of a destroyed instance calls no
\* change handler, queues no refresh and starts no fetch.
C10_DestroyOrder == [][C10_Step]_vars

\* destroy() of a rendered parent has destroyed its two children and removed
\* its element
C10_Witness ==
    /\ last.op = "destroy" /\ last.inst = 1
    /\ Events(last.log, "destroy", 2) # {}
    /\ Events(last.log, "destroy", 3) # {}
    /\ Events(last.log, "jqDom.remove", 1) # {}
    /\ Events(last.log, "jqDom.remove", 2) # {}
    /\ ~comp[1].observed /\ ~comp[2].observed /\ ~comp[3].observed

\* the data of a destroyed parent has been written at a path that has a ui
\* binding and a data binding
C10_MutatedAfterDestroy ==
    /\ last.op = "mutate" /\ last.inst = 1 /\ last.arg = <<"p">>
    /\ ~comp[1].observed
    /\ last.log = <<>>

----
\* the task groups of instance i that have started and not settled
InFlight(i) == {k \in DOMAIN groups : groups[k].inst = i}

\* C11: every task group adds one to pendingFetchCount when it starts and
\* takes one off when it has settled, by success or by failure: in every state
\* pendingFetchCount is the number of the instance's groups that have started
\* and not settled, and 0 once all of them have settled.
C11_Claim ==
    \A i \in Inst : comp[i].pendingFetchCount = Cardinality(InFlight(i))

----
\* C12: as long as a fetch group of the instance that was started with
\* delayRefresh = true has not settled, the gate is set and no reconciliation
\* of the instance runs, whatever other group of the instance settles.
C12_Claim ==
    \A i \in Inst :
        GatedFetchInFlight(i)
        => /\ comp[i].delayRefresh
           /\ Reconciles(last.log, i) = 0

----
\* C13: when a data-binding fetch group has settled, by resolution or by
\* rejection, the gate is clear, hideLoadMask was called if the group had
\* called showLoadMask, and a refresh was requested if the refresh state is
\* not empty; the gate is never set without a gated group in flight.
C13_Claim ==
    \A i \in Inst :
        /\ ( /\ last.op \in {"settle", "reject"} /\ last.inst = i
             /\ last.arg # <<>> /\ last.arg[1] = "fetch" )
           => /\ ~comp[i].delayRefresh
              /\ Len(last.arg) = 2 => Events(last.log, "hideLoadMask", i) # {}
              /\ RefreshPending(comp[i].refreshList)
                 => Events(last.log, "queueRefresh", i) # {}
        /\ comp[i].delayRefresh => GatedFetchInFlight(i)

----
\* one step, as C14 requires it (stated below)
C14_Step ==
    /\ last'.op = "reject"
       => /\ comp' = comp
          /\ refreshQueue' = refreshQueue /\ checks' = checks /\ sweeps' = sweeps
          /\ \E k \in InFlight(last'.inst) : groups' = RemoveAt(groups, k)
    /\ last'.op \notin {"settle", "reject"}
       => /\ Len(groups') >= Len(groups)
          /\ \A k \in DOMAIN groups : groups'[k].inst = groups[k].inst
                                       /\ groups'[k].kind = groups[k].kind
    /\ \A i \in Inst :
          (last'.op = "settle" /\ last'.inst = i)
          => /\ comp'[i].pendingFetchCount = comp[i].pendingFetchCount - 1
             /\ \A j \in Inst \ {i} : comp'[j] = comp[j]
             /\ last'.arg = <<"active">>
                => /\ comp'[i].initialized /\ ~comp'[i].pendingInit
                   /\ comp'[i].refreshList = RefreshTrue
                   /\ Events(last'.log, "queueRefresh", i) # {}
                   /\ Events(last'.log, "_init", i) # {}
             /\ last'.arg[1] = "fetch"
                => /\ ~comp'[i].delayRefresh
                   /\ Len(last'.arg) = 2 => Events(last'.log, "hideLoadMask", i) # {}
                   /\ RefreshPending(comp[i].refreshList)
                      => Events(last'.log, "queueRefresh", i) # {}

\* C14: the rejection of a task changes no instance and takes only its own
\* group out of flight; every other group, of the same instance or of another,
\* stays in flight until it settles itself, and when it resolves its success
\* path runs in full (initialization and refresh request for the active group,
\* gate, load mask and refresh request for a fetch group, the decrement of
\* pendingFetchCount for all), whatever was rejected before.
C14_FailureIsolated == [][C14_Step]_vars

\* a group has completed its success path on an instance of which another
\* group was rejected before
C14_Witness ==
    /\ last.op = "settle"
    /\ Stuck(last.inst)
    /\ \E j \in Inst \ {last.inst} : comp[j].exists /\ InFlight(j) # {}

----
\* the active init group of i was rejected
ActiveRejected(i) ==
    /\ comp[i].pendingInit
    /\ \A k \in InFlight(i) : groups[k].kind # "active"

\* one step, as C15 requires it (stated below)
C15_Step ==
    \A i \in Inst :
        /\ (last'.op = "reject" /\ last'.inst = i /\ last'.arg = <<"active">>)
           => /\ last'.err = "none"
              /\ Events(last'.log, "console.error", i) # {}
              /\ ActiveRejected(i)'
        /\ ActiveRejected(i)
           => /\ ActiveRejected(i)'
              /\ ~comp'[i].initialized
              /\ ~isReady(World, i)'
              /\ Reconciles(last'.log, i) = 0
              /\ Events(last'.log, "invoke", i) = {}
              /\ (last'.op = "render" /\ last'.inst = i)
                 => /\ last'.err = "none"
                    /\ last'.ret.loading
                    /\ comp'[i].jqDom = last'.ret

\* C15: the rejection of an active init task is logged and raises nothing;
\* from then on the instance stays uninitialized with pendingInit set: render()
\* does not start init again and returns a loading view, no reconciliation of
\* the instance runs, and isReady() is false.
C15_StuckAfterReject == [][C15_Step]_vars

\* render() has returned a loading view on an instance whose active init
\* group was rejected
C15_Witness ==
    /\ last.op = "render"
    /\ ActiveRejected(last.inst)
    /\ last.ret.loading
    /\ ~isReady(World, last.inst)

\* instance i has a repetition of a named section with two children of one tag,
\* and its template holds the section placeholder with one placeholder of that
\* tag inside
SameTagInClone(i) ==
    \E k \in DOMAIN comp[i].childSections :
        /\ comp[i].view.sec[comp[i].childSections[k].name] = 1
        /\ \E a \in DOMAIN comp[i].childSections[k].reps :
              \E b1, b2 \in DOMAIN comp[i].childSections[k].reps[a].items :
                  /\ b1 < b2
                  /\ comp[comp[i].childSections[k].reps[a].items[b1]].tagName
                       = comp[comp[i].childSections[k].reps[a].items[b2]].tagName
                  /\ comp[i].view.inner[
                         comp[comp[i].childSections[k].reps[a].items[b1]].tagName] = 1

\* C16: a render that evaluates the template of a component with two children
\* of one repetition resolving to the same placeholder tag of the section clone
\* raises the DuplicateChildTag error
C16_Claim ==
    \A i \in Inst :
        (last.op = "render" /\ last.inst = i /\ Events(last.log, "_render", i) # {}
         /\ SameTagInClone(i))
        => last.err = "DuplicateChildTag"

\* one step, as C17 requires it (stated below)
C17_Step ==
    (last'.op = "registerChild" /\ Len(last'.arg) = 2 /\ last'.arg[2] = "component")
    => /\ last'.err = "ConfigurationError"
       /\ last'.log = <<>>
       /\ comp' = comp

\* C17: registerChild(component, sectionName) with a component that is not an
\* array raises the configuration error in the call itself and leaves the child
\* registry as it was: no section is created and nothing is registered
C17_NonArrayRejected == [][C17_Step]_vars

\* a component was handed to registerChild with the name of a section that does
\* not exist: the call threw and there is still no section
C17_Witness ==
    /\ last.op = "registerChild" /\ last.arg = <<"rows", "component">>
    /\ last.err = "ConfigurationError"
    /\ comp[last.inst].childSections = <<>>

\* no element occurs twice in the sequence
NoRepeat(s) == \A j, k \in DOMAIN s : s[j] = s[k] => j = k

\* the components of every repetition of a section, in order
SectionItems(sec) == Flatten([a \in DOMAIN sec.reps |-> sec.reps[a].items])

\* C18: whatever registerChild calls were made, a component instance is
\* registered at most once in the default list and at most once across all
\* repetitions of a named section
C18_Claim ==
    \A p \in Inst :
        /\ NoRepeat(comp[p].childDefault)
        /\ \A k \in DOMAIN comp[p].childSections :
              NoRepeat(SectionItems(comp[p].childSections[k]))

\* the part of C18 that the registry keeps: the default list never repeats a
\* component and no array is in two repetitions of a section
C18_ByReference ==
    \A p \in Inst :
        /\ NoRepeat(comp[p].childDefault)
        /\ \A k \in DOMAIN comp[p].childSections :
              NoRepeat([a \in DOMAIN comp[p].childSections[k].reps |->
                          comp[p].childSections[k].reps[a].aid])

\* the tag of child c
TagOf(c) == comp[c].tagName

\* child b of repetition a of section k of p finds its placeholder in the clone:
\* the template has the section placeholder with the tag inside, and no earlier
\* child of the repetition has taken it
RepFound(p, k, a, b) ==
    /\ comp[p].view.sec[comp[p].childSections[k].name] = 1
    /\ comp[p].view.inner[TagOf(comp[p].childSections[k].reps[a].items[b])] = 1
    /\ \A b1 \in 1..(b - 1) :
          TagOf(comp[p].childSections[k].reps[a].items[b1])
            # TagOf(comp[p].childSections[k].reps[a].items[b])

\* the sum of a sequence of numbers
RECURSIVE SumSeq(_)
SumSeq(s) == IF s = <<>> THEN 0 ELSE Head(s) + SumSeq(Tail(s))

\* the placeholders of tag t that the clones of section k of p bring into the
\* root: one per repetition without a child of that tag
LeftBySection(p, k, t) ==
    IF comp[p].view.sec[comp[p].childSections[k].name] = 0 THEN 0
    ELSE SumSeq([a \in DOMAIN comp[p].childSections[k].reps |->
                   IF \E b \in DOMAIN comp[p].childSections[k].reps[a].items :
                         TagOf(comp[p].childSections[k].reps[a].items[b]) = t
                   THEN 0 ELSE comp[p].view.inner[t]])

\* the placeholders of tag t in the root of p once its sections are filled:
\* those outside the section placeholders, those left in the clones, and those
\* inside the placeholder of a section nothing is registered for
RootPlaceholders(p, t) ==
    comp[p].view.top[t]
    + SumSeq([k \in DOMAIN comp[p].childSections |-> LeftBySection(p, k, t)])
    + (IF \E n \in SectionNames :
             /\ comp[p].view.sec[n] = 1
             /\ \A k \in DOMAIN comp[p].childSections : comp[p].childSections[k].name # n
       THEN comp[p].view.inner[t] ELSE 0)

\* default child d of p has exactly one placeholder in the root when its turn
\* comes (the children registered after it are visited before it)
DefaultFound(p, d) ==
    /\ RootPlaceholders(p, TagOf(comp[p].childDefault[d])) = 1
    /\ \A d2 \in (d + 1)..Len(comp[p].childDefault) :
          TagOf(comp[p].childDefault[d2]) # TagOf(comp[p].childDefault[d])

\* the components C19 expects a record for when p is rendered with its
\* children: every (repetition, child) pair and every default child that finds
\* its placeholder, each followed by what it inserted itself
RECURSIVE ExpectedRecords(_)
ExpectedRecords(p) ==
    IF ~comp[p].initialized /\ comp[p].pendingInit THEN <<>>
    ELSE Flatten([n \in 1..(Len(comp[p].childSections) + Len(comp[p].childDefault)) |->
            IF n <= Len(comp[p].childSections)
            THEN Flatten([a \in DOMAIN comp[p].childSections[n].reps |->
                    Flatten([b \in DOMAIN comp[p].childSections[n].reps[a].items |->
                       IF RepFound(p, n, a, b)
                       THEN <<comp[p].childSections[n].reps[a].items[b]>>
                       ELSE <<>>])])
            ELSE IF DefaultFound(p, n - Len(comp[p].childSections))
                 THEN <<comp[p].childDefault[n - Len(comp[p].childSections)]>>
                 ELSE <<>>])

\* the expected records of p with those of every inserted descendant
RECURSIVE WithDescendants(_)
WithDescendants(s) ==
    IF s = <<>> THEN <<>>
    ELSE <<Head(s)>> \o WithDescendants(ExpectedRecords(Head(s))) \o WithDescendants(Tail(s))

\* how often x occurs in the sequence
Occurrences(s, x) == Cardinality({k \in DOMAIN s : s[k] = x})

\* one step, as C19 requires it (stated below): a render that evaluates the
\* template and returns
C19_Step ==
    (last'.op = "render" /\ last'.err = "none"
     /\ Events(last'.log, "_render", last'.inst) # {})
    => LET Exact(recs) ==
               /\ \A x \in Inst :
                     Occurrences([k \in DOMAIN recs |-> recs[k].comp], x)
                       = Occurrences(WithDescendants(ExpectedRecords(last'.inst)), x)
               /\ \A j, k \in DOMAIN recs :
                     /\ recs[j].elmt.id # last'.ret.id
                     /\ recs[j].elmt.id = recs[k].elmt.id => j = k
               /\ Len(recs) + 1 = Cardinality(Evaluations(last'.log))
       IN Exact(render(World, last'.inst).recs)

\* C19: _insertChildren returns one record for each default child with exactly
\* one placeholder in the root and one for each (repetition, child) pair whose
\* placeholder is found in the clone, with the records of their inserted
\* descendants and nothing else; every record has an element of its own
C19_InsertionRecords == [][C19_Step]_vars

\* one default child and two repetitions of two children each, all placeholders
\* present: the render evaluated the parent's template and five children's
C19_Witness ==
    /\ last.op = "render" /\ last.err = "none" /\ last.inst = 1
    /\ Len(comp[1].childDefault) = 1
    /\ Len(comp[1].childSections) = 1
    /\ Len(comp[1].childSections[1].reps) = 2
    /\ \A a \in 1..2 : Len(comp[1].childSections[1].reps[a].items) = 2
    /\ Len(WithDescendants(ExpectedRecords(1))) = 5
    /\ Cardinality(Evaluations(last.log)) = 6

\* a child of a repetition was inserted with a child of its own
C19_Nested ==
    /\ last.op = "render" /\ last.err = "none" /\ last.inst = 1
    /\ \E k \in DOMAIN ExpectedRecords(1) :
          ExpectedRecords(ExpectedRecords(1)[k]) # <<>>
    /\ Cardinality(Evaluations(last.log)) >= 3

\* the entries of an init list whose condition does not return false
Remaining(il) == SelectSeq(il, LAMBDA e : e.condition # "false")

\* no active task remains in the init list of the component
NoActiveRemains(c) == \A k \in DOMAIN Remaining(c.initList) : ~Remaining(c.initList)[k].preventRender

\* a passive task remains
PassiveRemains(c) == \E k \in DOMAIN Remaining(c.initList) : ~Remaining(c.initList)[k].preventRender

\* this step ran init() of instance i: its constructor without delayInit, or
\* the first render of a component constructed with delayInit
InitRan(i) ==
    \/ last'.op = "new" /\ last'.inst = i /\ ~comp'[i].delayInit
    \/ /\ last'.op = "render" /\ last'.inst = i
       /\ ~comp[i].initialized /\ ~comp[i].pendingInit

\* one step, as C20 requires it (stated below)
C20_Step ==
    \A i \in Inst :
        (InitRan(i) /\ NoActiveRemains(comp'[i]))
        => /\ comp'[i].initialized
           /\ ~comp'[i].pendingInit
           /\ Cardinality(Events(last'.log, "_init", i)) = 1
           /\ comp'[i].pendingFetchCount = (IF PassiveRemains(comp'[i]) THEN 1 ELSE 0)
           /\ Cardinality(InFlight(i)') = (IF PassiveRemains(comp'[i]) THEN 1 ELSE 0)
           /\ \A k \in InFlight(i)' : groups'[k].kind = "passive"
           /\ [k \in 1..Cardinality(Events(last'.log, "invoke", i)) |->
                  Remaining(comp'[i].initList)[k].method]
                = [k \in DOMAIN Remaining(comp'[i].initList) |->
                     Remaining(comp'[i].initList)[k].method]
           /\ \A k \in Events(last'.log, "invoke", i) :
                 \E j \in DOMAIN Remaining(comp'[i].initList) :
                     Remaining(comp'[i].initList)[j].method = last'.log[k].arg
           /\ (~PassiveRemains(comp'[i]) /\ last'.op = "new") => isReady(World, i)'

\* C20: when no active task remains after the skipped entries, init() sets
\* initialized before it returns, never sets pendingInit, runs the post-init
\* hook at once and counts one pending group only if a passive task remains;
\* skipped entries are neither invoked nor counted, and without a passive task
\* isReady() is true right after construction
C20_SynchronousInit == [][C20_Step]_vars

\* a component whose only active entry is skipped and whose passive task
\* remains has just been constructed
C20_Witness ==
    /\ last.op = "new" /\ last.inst # 0
    /\ comp[last.inst].initialized /\ ~comp[last.inst].pendingInit
    /\ Len(comp[last.inst].initList) = 2
    /\ Len(Remaining(comp[last.inst].initList)) = 1
    /\ comp[last.inst].pendingFetchCount = 1

\* a component whose only entry is skipped is ready right after construction
C20_SkippedReady ==
    /\ last.op = "new" /\ last.inst # 0
    /\ Len(comp[last.inst].initList) = 1
    /\ Remaining(comp[last.inst].initList) = <<>>
    /\ isReady(World, last.inst)

\* one step, as C21 requires it (stated below)
C21_Step ==
    (last'.op = "mutate" /\ ~comp[last'.inst].initialized)
    => /\ comp' = comp
       /\ refreshQueue' = refreshQueue /\ uniqueIndex' = uniqueIndex
       /\ checks' = checks /\ groups' = groups
       /\ \A k \in DOMAIN last'.log :
             last'.log[k].ev \notin {"invoke", "showLoadMask", "queueRefresh"}

\* C21: while initialized is false a write to the data has no refresh or fetch
\* effect: refresh state, pendingFetchCount and the gate stay as they are, no
\* fetch method is invoked, no load mask is shown, nothing is queued
C21_QuietBeforeInit == [][C21_Step]_vars

\* a path with a ui binding and a data binding was written before the active
\* init task of the component settled
C21_Witness ==
    /\ last.op = "mutate" /\ last.arg = <<"p">>
    /\ ~comp[last.inst].initialized /\ comp[last.inst].pendingInit
    /\ Events(last.log, "onChange", last.inst) # {}

\* one step, as C22 requires it (stated below)
C22_Step ==
    \A i \in Inst :
        (InitRan(i) /\ ~BindingsCallable(comp'[i]))
        => /\ last'.err = "ConfigurationError"
           /\ \A k \in DOMAIN last'.log : last'.log[k].ev \notin {"invoke", "condition"}
           /\ comp'[i].initialized = comp[i].initialized
           /\ comp'[i].pendingInit = comp[i].pendingInit
           /\ comp'[i].pendingFetchCount = comp[i].pendingFetchCount
           /\ groups' = groups

\* C22: when a data binding names a method that is not a function of the
\* instance, init() raises the configuration error before it calls any
\* condition or method of the init list and leaves initialized, pendingInit
\* and pendingFetchCount as they were
C22_InitFailsFast == [][C22_Step]_vars

\* a component with init tasks and a data binding without its method was
\* constructed with delayInit and then rendered
C22_Witness ==
    /\ last.op = "render" /\ last.err = "ConfigurationError"
    /\ ~BindingsCallable(comp[last.inst])
    /\ Len(comp[last.inst].initList) = 2
    /\ ~comp[last.inst].initialized /\ comp[last.inst].pendingFetchCount = 0

\* the constructor itself raised the error
C22_InConstructor ==
    /\ last.op = "new" /\ last.err = "ConfigurationError"
    /\ Len(comp[last.inst].initList) = 2
    /\ ~comp[last.inst].exists

\* the instances reconciled by the step that led to log
Reconciled(log) == {i \in Inst : Reconciles(log, i) > 0}

\* one step, as C23 requires it (stated below): a flush, seen from every
\* instance outside the reconciled ones and their registered descendants
C23_Step ==
    last'.op = "check"
    => \A j \in Inst \ Descendants(Reconciled(last'.log), NInst) :
          /\ comp'[j].jqDom = comp[j].jqDom
          /\ comp'[j].refreshList = comp[j].refreshList
          /\ comp'[j].initRendered = comp[j].initRendered
          /\ comp'[j].pendingFetchCount = comp[j].pendingFetchCount
          /\ comp'[j].pendingInit = comp[j].pendingInit
          /\ comp'[j].initialized = comp[j].initialized

\* C23: a reconciliation of instance X, full or partial, leaves every instance
\* that is neither X nor a registered descendant of X as it was: the same
\* cached element, refresh state, rendered flag and fetch counters
C23_OthersUntouched == [][C23_Step]_vars

\* a rendered child was reconciled; its parent and its sibling, both rendered,
\* were not
C23_Witness ==
    \E x, s \in Inst :
        /\ last.op = "check" /\ Reconciled(last.log) = {x}
        /\ x # 1 /\ s # x
        /\ {x, s} \subseteq RegisteredChildren(comp[1])
        /\ comp[1].jqDom.id # 0 /\ comp[s].jqDom.id # 0
        /\ comp[1].initRendered

\* C24: the refresh queue is deduplicated by instance id: in every reachable
\* state it holds at most one refresh closure per instance
C24_Claim == NoRepeat([k \in DOMAIN refreshQueue |-> refreshQueue[k].self])

\* the refresh closures a step invoked, in order: the instance of each
Invoked(log) ==
    LET pops == SelectSeq(log, LAMBDA e : e.ev = "pop")
    IN [k \in DOMAIN pops |-> pops[k].inst]

\* one step, as C25 requires it (stated below)
C25_Step ==
    last'.op = "check"
    => IF Head(checks) = Len(refreshQueue)
       THEN /\ Invoked(last'.log) = Reverse([k \in DOMAIN refreshQueue |-> refreshQueue[k].self])
            /\ refreshQueue' = <<>>
       ELSE /\ Invoked(last'.log) = <<>>
            /\ refreshQueue' = refreshQueue
            /\ comp' = comp

\* C25: a check that finds the queue as long as it was when the check was
\* scheduled invokes every queued refresh function once, the last queued first,
\* and leaves the queue empty; a check that finds another length invokes
\* nothing and leaves the queue as it is
C25_CheckFlushes == [][C25_Step]_vars

\* the flush of C25 when no refresh function raises an error
C25_QuietStep == last'.err = "none" => C25_Step
C25_FlushesUnlessRaised == [][C25_QuietStep]_vars

\* a flush stopped at a refresh function that raised, with a closure of another
\* instance still queued
C25_Starved ==
    /\ last.op = "check" /\ last.err # "none"
    /\ \E k \in DOMAIN refreshQueue : refreshQueue[k].self \notin Range(Invoked(last.log))

\* one step, as C26 requires it (stated below).  Every request schedules a
\* check and the checks fire in the order they were scheduled, so a check that
\* fires while another is pending is not the check of the most recent request.
C26_Step ==
    /\ last'.op = "check" => (Flushed(last') <=> Len(checks) = 1)
    /\ Invoked(last'.log) # <<>> => (last'.op = "check" /\ checks' = <<>>)

\* C26: the scheduler is a trailing-edge debounce across all instances: every
\* queueRefresh call, also one for an instance that is already queued, restarts
\* the window, so no refresh function is invoked while a later request's check
\* is pending, and a burst of requests is flushed once, by the check of the last
\* request
C26_TrailingEdge == [][C26_Step]_vars

\* the check of the last request of a burst flushed closures of two instances,
\* one of them requested twice
C26_Witness ==
    /\ Flushed(last) /\ last.err = "none" /\ checks = <<>>
    /\ \E j, k, m \in DOMAIN Invoked(last.log) :
          /\ j # k /\ Invoked(last.log)[j] = Invoked(last.log)[k]
          /\ Invoked(last.log)[m] # Invoked(last.log)[j]

\* one step, as C27 requires it (stated below)
C27_Step ==
    \A i \in Inst :
        comp[i].refreshList = RefreshTrue
        => \/ comp'[i].refreshList = RefreshTrue
           \/ /\ comp'[i].refreshList = RefreshNone
              /\ \E k \in Events(last'.log, "reconcile", i) : last'.log[k].arg = "full"
              /\ Events(last'.log, "_render", i) # {}

\* C27: once the refresh state of an instance is true it stays true under any
\* mutation batch, refresh() call, task settlement and gated or uninitialized
\* _refresh; it changes only when a render pass of a reconciliation consumes it,
\* and then to empty
C27_TrueUntilConsumed == [][C27_Step]_vars

\* a flush has invoked the refresh function of an instance whose gate is
\* closed: nothing was reconciled and the refresh state is still true
C27_Witness ==
    /\ Flushed(last) /\ Invoked(last.log) # <<>>
    /\ \E i \in Range(Invoked(last.log)) :
          /\ comp[i].refreshList = RefreshTrue
          /\ comp[i].delayRefresh
          /\ Reconciles(last.log, i) = 0

\* C28: pendingFetchCount is never negative, for any interleaving of init,
\* data-binding fetches, task resolutions and task rejections
C28_CountNotNegative == \A i \in Inst : comp[i].pendingFetchCount >= 0

\* the group of a data-binding fetch with two tasks has settled and taken the
\* count of its instance back to zero
C28_Witness ==
    /\ last.op = "settle" /\ last.arg = <<"fetch", "delayRefresh">>
    /\ comp[last.inst].pendingFetchCount = 0
    /\ InFlight(last.inst) = {}

\* the orders in which the change records of a batch can be emitted
Orders(changes) ==
    {b \in [DOMAIN changes -> Range(changes)] :
        \A x \in Range(changes) : Occurrences(b, x) = Occurrences(changes, x)}

\* two outcomes of the binding resolution with the same aggregate effect
SameEffect(r1, r2) ==
    /\ r1.refreshList.full = r2.refreshList.full
    /\ Range(r1.refreshList.sels) = Range(r2.refreshList.sels)
    /\ Range(r1.fetchList) = Range(r2.fetchList)
    /\ r1.delayRefresh = r2.delayRefresh

\* one step, as C29 requires it (stated below): the handler of an initialized
\* instance did what the resolution of its batch says, and the resolution of
\* the batch in any other order has the same effect
C29_Step ==
    \A i \in Inst :
        (last'.op = "mutate" /\ last'.inst = i /\ comp[i].initialized /\ comp[i].observed)
        => /\ comp'[i].refreshList = Resolve(comp[i].refreshList, last'.arg).refreshList
           /\ {last'.log[k].arg : k \in Events(last'.log, "invoke", i)}
                = Range(Resolve(comp[i].refreshList, last'.arg).fetchList)
           /\ \A b \in Orders(last'.arg) :
                 SameEffect(Resolve(comp[i].refreshList, b),
                            Resolve(comp[i].refreshList, last'.arg))

\* C29: for a fixed instance state and fixed bindings, every order of the
\* change records of a batch yields the same refresh state (true, or the same
\* set of selectors), the same set of fetch methods and the same delayRefresh
C29_OrderIndependent == [][C29_Step]_vars

\* a batch of two records that match different selector lists was processed on
\* an instance with selectors already pending
C29_Witness ==
    /\ last.op = "mutate" /\ last.arg = <<"r", "q">>
    /\ comp[last.inst].initialized
    /\ ~comp[last.inst].refreshList.full
    /\ Cardinality(Range(comp[last.inst].refreshList.sels)) >= 3
    /\ Len(comp[last.inst].refreshList.sels) > 6

\* C30: the fetch methods started for one mutation batch form a set: a method
\* named by several matching data bindings, or matched by several change
\* records, is invoked at most once for the batch
C30_Claim ==
    last.op = "mutate"
    => \A j, k \in DOMAIN last.log :
          (last.log[j].ev = "invoke" /\ last.log[k].ev = "invoke"
           /\ last.log[j].arg = last.log[k].arg) => j = k

\* one step: the gate of the batch is the OR of the delayRefresh flags of the
\* data bindings its change records match
C30_GateStep ==
    \A i \in Inst :
        (last'.op = "mutate" /\ last'.inst = i /\ comp[i].initialized /\ comp[i].observed)
        => ((Events(last'.log, "showLoadMask", i) # {})
            <=> \E n \in DOMAIN last'.arg, k \in DOMAIN DataBindings :
                   KeyMatches(DataBindings[k].key, last'.arg[n]) /\ DataBindings[k].delayRefresh)

\* the part of C30 about delayRefresh
C30_GateIsOr == [][C30_GateStep]_vars

\* one step, as C31 requires it (stated below): a flush whose refresh
\* functions all belong to one instance that is not initialized or is gated
C31_Step ==
    \A i \in Inst :
        ( /\ last'.op = "check" /\ Range(Invoked(last'.log)) = {i}
          /\ (~comp[i].initialized \/ comp[i].delayRefresh) )
        => /\ comp'[i] = comp[i]
           /\ Evaluations(last'.log) = {}
           /\ Reconciles(last'.log, i) = 0
           /\ sweeps' = sweeps
           /\ last'.err = "none"

\* C31: _refresh on an instance that is not initialized, or whose gate is set,
\* does nothing: element, refresh state, rendered flag and child registry stay
\* as they are, no template is evaluated, no orphan sweep is scheduled, and the
\* pending refresh state is kept for a later pass
C31_GatedIsNoOp == [][C31_Step]_vars

\* the refresh function of an instance whose active init task is pending was
\* invoked by a flush, and its refresh state is still pending
C31_Witness ==
    /\ Flushed(last) /\ Invoked(last.log) # <<>>
    /\ \A i \in Range(Invoked(last.log)) :
          /\ ~comp[i].initialized /\ comp[i].pendingInit
          /\ RefreshPending(comp[i].refreshList)
          /\ comp[i].jqDom.loading

\* a sweep of the instance of the oldest sweep timer was scheduled after it
Superseded == \E k \in 2..Len(sweeps) : sweeps[k].inst = Head(sweeps).inst

\* one step, as C32 requires it (stated below)
C32_Step ==
    last'.op = "sweepTimer"
    => IF Superseded
       THEN /\ Events(last'.log, "sweep", last'.inst) = {}
            /\ comp' = comp
       ELSE Events(last'.log, "sweep", last'.inst) # {}

\* C32: when several orphan sweeps are pending for one instance, only the one
\* scheduled last examines and destroys children when it fires; every earlier
\* one does nothing
C32_LastSweepOnly == [][C32_Step]_vars

\* the step of C32 when the tokens of the pending sweeps of an instance differ
C32_DistinctStep ==
    (\A j, k \in DOMAIN sweeps :
        (sweeps[j].inst = sweeps[k].inst /\ sweeps[j].token = sweeps[k].token) => j = k)
    => C32_Step
C32_UnlessSameToken == [][C32_DistinctStep]_vars

\* a superseded sweep has fired and done nothing; the sweep that superseded it
\* is still pending
C32_Stale ==
    /\ last.op = "sweepTimer" /\ Events(last.log, "sweep", last.inst) = {}
    /\ \E k \in DOMAIN sweeps :
          sweeps[k].inst = last.inst /\ sweeps[k].token = comp[last.inst].cleanUpChildren


-----------------------------------------------------------------------------
(* eachChildComponent under removing visitors *)

\* the children a step's iteration handed to its visitor, in order
Visited(log) ==
    LET visits == SelectSeq(log, LAMBDA e : e.ev = "visit")
    IN [k \in DOMAIN visits |-> visits[k].inst]

\* a list of children without the members of R
Without(s, R) == SelectSeq(s, LAMBDA c : c \notin R)

\* the repetitions of a section without the members of R; a repetition that
\* loses its last child goes
RepsWithout(reps, R) ==
    LET both == [a \in DOMAIN reps |->
                   [old |-> reps[a], new |-> [reps[a] EXCEPT !.items = Without(@, R)]]]
        stay == SelectSeq(both, LAMBDA q : q.new.items # <<>> \/ q.old.items = <<>>)
    IN [a \in DOMAIN stay |-> stay[a].new]

\* the named sections without the members of R; a section that loses its
\* last repetition goes
SectionsWithout(secs, R) ==
    LET both == [k \in DOMAIN secs |->
                   [old |-> secs[k], new |-> [secs[k] EXCEPT !.reps = RepsWithout(@, R)]]]
        stay == SelectSeq(both, LAMBDA q : q.new.reps # <<>> \/ q.old.reps = <<>>)
    IN [k \in DOMAIN stay |-> stay[k].new]

\* one step, as C33 requires it (stated below): an iteration of the registry
\* of last'.inst whose visitor removes the children in last'.arg
C33_Step ==
    last'.op = "eachChild"
    => LET Holds(p, R, gone) ==
              /\ Visited(last'.log) = ChildOrder(comp[p])
              /\ comp'[p] = [comp[p] EXCEPT !.childDefault = Without(@, R),
                                            !.childSections = SectionsWithout(@, R)]
              /\ \A c \in R : /\ Events(last'.log, "destroy", c) # {}
                              /\ ~comp'[c].observed
                              /\ c \notin RegisteredChildren(comp'[p])
              /\ \A j \in Inst \ ({p} \cup gone) :
                    /\ comp'[j] = comp[j]
                    /\ Events(last'.log, "destroy", j) = {}
           Of(p, R) == Holds(p, R, Descendants(R, NInst))
       IN Of(last'.inst, Range(last'.arg) \cap RegisteredChildren(comp[last'.inst]))

\* C33: eachChildComponent invokes the visitor exactly once for every child
\* registered when the iteration starts, in the default section and in every
\* repetition of every named section (in the order of an iteration that
\* removes nothing), whatever subset of them the visitor removes; every
\* removed child is destroyed and gone from the registry, and no other child
\* is removed or destroyed.
C33_VisitsAllRemovesChosen == [][C33_Step]_vars

\* C33 witness: an iteration over a registry with a default child and a named
\* section removed some children, among them a whole repetition, and kept
\* others.
C33_Witness ==
    /\ last.op = "eachChild"
    /\ Cardinality(Events(last.log, "removeChild", 3) \cup Events(last.log, "removeChild", 4)
                   \cup Events(last.log, "removeChild", 5) \cup Events(last.log, "removeChild", 6)) >= 2
    /\ Len(Visited(last.log)) >= 3
    /\ \E x \in Range(Visited(last.log)) : x \in RegisteredChildren(comp[1])
    /\ \E x \in Range(Visited(last.log)) : x \notin RegisteredChildren(comp[1])


-----------------------------------------------------------------------------
(* Rendering after destroy() *)

\* destroy() has been called on instance i
Destroyed(i) == comp[i].exists /\ ~comp[i].observed

\* the step was a callback of the event loop: a timer or a settling task
Callback(l) == l.op \in {"check", "sweepTimer", "resolve", "settle", "reject"}

\* one step, as C34 requires it (stated below)
C34_Step ==
    Callback(last')
    => \A i \in Inst :
          Destroyed(i)
          => /\ Events(last'.log, "_render", i) = {}
             /\ Events(last'.log, "renderLoading", i) = {}
             /\ comp'[i].jqDom = comp[i].jqDom

\* C34: after destroy() has been called on an instance, no timer callback and
\* no settling fetch group renders or reconciles it: a refresh function queued
\* before destroy(), or a group that settles after it, neither evaluates the
\* instance's template nor changes its rendered reference.
C34_DestroyIsFinal == [][C34_Step]_vars

\* a flush has invoked the refresh function of a destroyed instance, which
\* evaluated the template and replaced the rendered reference
C34_RenderedAfterDestroy ==
    /\ last.op = "check"
    /\ \E i \in Inst : /\ Destroyed(i)
                       /\ Events(last.log, "pop", i) # {}
                       /\ Events(last.log, "_render", i) # {}
                       /\ Events(last.log, "reconcile", i) # {}

\* the same for a refresh function queued by a fetch group that settled after
\* destroy()
C34_SettledAfterDestroy ==
    /\ last.op = "settle"
    /\ Destroyed(last.inst)
    /\ \E k \in DOMAIN refreshQueue : refreshQueue[k].self = last.inst


-----------------------------------------------------------------------------
(* The refresh state after a pass of _refresh *)

\* one step, as C35 requires it (stated below): a flush, seen from every
\* instance whose _refresh passed its gate and returned
C35_Step ==
    (last'.op = "check" /\ last'.err = "none")
    => \A i \in Inst :
          Events(last'.log, "reconcile", i) # {} => comp'[i].refreshList = RefreshNone

\* every pass leaves the refresh state empty
C35_PassEmpties == [][C35_Step]_vars

\* once the active init tasks of an instance have resolved, isReady() becomes
\* true, unless one of the instance's task groups was rejected
C35_BecomesReady ==
    \A i \in Inst :
        (last.op = "settle" /\ last.inst = i /\ last.arg = <<"active">>)
        ~> (isReady(World, i) \/ Stuck(i))

\* C35: every _refresh call that passes its gate leaves the refresh state
\* empty, also when nothing had been rendered before and _refresh performs the
\* first full render; hence once the active init tasks of an instance have
\* resolved and the flush has run, isReady() becomes true, whether or not
\* render() had been called before the tasks resolved.
C35_Claim == C35_PassEmpties /\ C35_BecomesReady

\* the flush after the active init tasks has performed the first render of an
\* instance: the refresh state is still true, no group is pending, no timer
\* is left, and isReady() is false
C35_FirstRenderStaysTrue ==
    \E i \in Inst :
        /\ last.op = "check" /\ last.err = "none"
        /\ \E k \in DOMAIN last.log : last.log[k] = Ev("reconcile", i, "first")
        /\ comp[i].initRendered /\ comp[i].jqDom.id # 0
        /\ comp[i].refreshList = RefreshTrue
        /\ comp[i].pendingFetchCount = 0 /\ ~comp[i].pendingInit
        /\ groups = <<>> /\ checks = <<>> /\ sweeps = <<>>
        /\ ~isReady(World, i)


-----------------------------------------------------------------------------
(* A flush in which a refresh function raises *)

\* one step, as C36 requires it (stated below): a flush during which a
\* refresh function raised
C36_Step ==
    (Flushed(last') /\ last'.err # "none")
    => /\ Len(Invoked(last'.log)) = Len(refreshQueue)
       /\ \A k \in DOMAIN refreshQueue :
             Occurrences(Invoked(last'.log), refreshQueue[k].self)
               = Occurrences([j \in DOMAIN refreshQueue |-> refreshQueue[j].self],
                             refreshQueue[k].self)
       /\ refreshQueue' = <<>>
       /\ uniqueIndex' = <<>>

\* C36: a refresh function that raises an error during a flush does not
\* strand the others: every refresh function that was in the queue when the
\* flush started is invoked, and the queue and its index of instance ids are
\* empty after the flush, without a further queueRefresh call.
C36_RaiseStrandsNothing == [][C36_Step]_vars

\* a refresh function has raised during a flush: a function queued before it
\* is still in the queue, the index is not empty and no timer is pending
C36_Stranded ==
    /\ Flushed(last) /\ last.err # "none"
    /\ refreshQueue # <<>>
    /\ uniqueIndex # <<>>
    /\ checks = <<>>


-----------------------------------------------------------------------------
(* The cached root across reconciliation passes *)

\* instance i was reconciled in the step that led to log, and no instance it
\* is registered below was: no pass of a parent re-anchored it
OwnPassOnly(log, i) ==
    /\ Events(log, "reconcile", i) # {}
    /\ \A j \in Reconciled(log) \ {i} : i \notin Descendants({j}, NInst)

\* the step that led to log reconciled instance i in full
InFull(log, i) == \E k \in DOMAIN log : log[k] = Ev("reconcile", i, "full")

\* one step, as C37 requires it (stated below): a flush, seen from every
\* rendered instance it reconciled
C37_Step ==
    last'.op = "check"
    => \A i \in Inst :
          (OwnPassOnly(last'.log, i) /\ comp[i].jqDom.id # 0)
          => IF InFull(last'.log, i)
             THEN last'.err = "none"
                  => /\ comp'[i].jqDom # comp[i].jqDom
                     /\ comp'[i].jqDom.id >= nextElmt
             ELSE /\ comp'[i].jqDom = comp[i].jqDom
                  /\ comp'[i].initRendered = comp[i].initRendered

\* C37: a partial reconciliation preserves the identity of the root: when
\* _refresh runs with a non-empty selector list on an instance that has a
\* rendered tree, the cached root reference after the pass is the one before it
\* and the rendered flag is unchanged; a full reconciliation (refresh state
\* true), and only that, replaces the cached root with a new reference.
C37_PartialKeepsRoot == [][C37_Step]_vars

\* C37 witness: a flush has patched an element of a rendered parent in a
\* partial pass, and the parent's root is the one it had
C37_Witness ==
    /\ Flushed(last) /\ last.err = "none"
    /\ \E k \in DOMAIN last.log : last.log[k] = Ev("reconcile", 1, "partial")
    /\ Events(last.log, "replaceWith", 1) # {}
    /\ Events(last.log, "_render", 1) # {}
    /\ comp[1].initRendered /\ comp[1].jqDom.id # 0
    /\ \E s \in Slots : comp[1].slots[s] # comp[1].jqDom.id

\* a flush has replaced the root of a rendered parent in a full pass
C37_FullReplaces ==
    /\ Flushed(last) /\ last.err = "none"
    /\ last.log # <<>> /\ \E k \in DOMAIN last.log : last.log[k] = Ev("reconcile", 1, "full")
    /\ \E k \in DOMAIN last.log : last.log[k] = Ev("replaceWith", 1, "root")

=============================================================================
